---- MODULE Spec2Model ----
(***************************************************************************)
(* A model of the Lightning plugin's provider and actions:                 *)
(*   LightningProvider.closeChannel      (src/src/providers/lightning.ts)  *)
(*   PayInvoiceAction.getAvalibleChannelId / payInvoice                    *)
(*                                       (src/src/actions/payInvoice.ts)   *)
(*   LightningProvider.getLndChannel / payInvoice                          *)
(*   LightningProvider.openChannel, getChainAddresses, getChainBalance,    *)
(*   getLndIdentity and the status summary lndProvider.get                 *)
(*   CreateInvoiceAction.createInvoice   (src/unnamed/part_004)            *)
(*   CreateChainAddressAction.createChainAddress                           *)
(*                                (src/src/actions/createChainAddress.ts)  *)
(*   GetChannelsAction.getChannels     (src/src/actions/getChannels.ts)    *)
(* Every async method is cut at its awaits: the code before an await is    *)
(* one action, the continuation after the backend answered is another.     *)
(***************************************************************************)
EXTENDS Integers, Sequences, FiniteSets, TLC

(***************************************************************************)
(* JavaScript values.  A value carries its type, so that values of          *)
(* different types can be compared, and `undefined` is a value of its own.  *)
(***************************************************************************)
Undefined == <<"undefined">>
Str(s) == <<"string", s>>
Num(n) == <<"number", n>>
Bool(b) == <<"boolean", b>>
Null == <<"null">>
\* a string whose characters matter: the sequence of its UTF-16 code units
\* ("02" is <<48, 50>>, a space is 32, a tab is 9)
Txt(chars) == <<"text", chars>>

\* JavaScript truthiness, as used by `!x`, `x && y` and `x ? a : b`.
Truthy(v) ==
    CASE v[1] = "undefined" -> FALSE
      [] v[1] = "string" -> v[2] # ""
      [] v[1] = "number" -> v[2] # 0
      [] v[1] = "boolean" -> v[2]
      [] v[1] = "null" -> FALSE
      [] v[1] = "text" -> Len(v[2]) > 0

(***************************************************************************)
(* JavaScript objects: functions from the keys present to their values.     *)
(***************************************************************************)
EmptyObj == [k \in {} |-> Undefined]
Prop(k, v) == [x \in {k} |-> v]
\* o.k : undefined when the key is absent
Get(o, k) == IF k \in DOMAIN o THEN o[k] ELSE Undefined
\* { ...a, ...b } : the later spread wins
Spread(a, b) == [k \in (DOMAIN a) \cup (DOMAIN b) |-> IF k \in DOMAIN b THEN b[k] ELSE a[k]]
\* Object.keys(o).forEach(key => { if (o[key] === undefined) delete o[key] })
StripUndefined(o) == [k \in {x \in DOMAIN o : o[x] # Undefined} |-> o[k]]

\* this.lndClient, the authenticated client handle passed with every backend call
LndClient == Str("lndClient")

\* the mutated wrapping: the cause's message is dropped
WrapDiscard(prefix, message) == <<prefix>>

\* `Failed to ...: ${error.message}` : a message is the sequence of its parts
Wrap(prefix, message) == <<prefix>> \o message

(***************************************************************************)
(* Bounds of the model.                                                     *)
(***************************************************************************)
MaxVout == 1
MaxFee == 1
MaxBalance == 2
MaxChanges == 1
MaxTokens == 1
MaxAddresses == 2
MaxQueryChannels == 1
MaxHandlerChannels == 1

\* messages of backend errors
BackendMessages == {"503 backend unavailable", "400 rejected"}

Operations ==
    {"close", "pay", "open", "createInvoice", "createChainAddress", "getChannels",
     "getChainAddresses", "getChainBalance", "getLndIdentity", "status", "handler"}

(***************************************************************************)
(* Close requests: CloseChannelArgs, every field optional.                  *)
(***************************************************************************)
OptBool == {Undefined, Bool(FALSE), Bool(TRUE)}
OptFee == {Undefined} \cup {Num(n) : n \in 0..MaxFee}

CloseIds == {Undefined, Str(""), Str("chan1")}
CloseTxIds == {Undefined, Str("tx1")}
CloseVouts == {Undefined} \cup {Num(n) : n \in 0..MaxVout}
CloseAddresses == {Undefined, Str("bc1...")}
ClosePeers == {<<Undefined, Undefined>>, <<Str("02peer"), Undefined>>,
               <<Str("02peer"), Str("host:9735")>>}

CloseRequestOf(id, tid, vout, force, graceful, addr, peer, maxFee, fee, conf) ==
    [k \in {"id", "transaction_id", "transaction_vout", "is_force_close",
            "is_graceful_close", "address", "public_key", "socket",
            "max_tokens_per_vbyte", "tokens_per_vbyte", "target_confirmations"} |->
        CASE k = "id" -> id
          [] k = "transaction_id" -> tid
          [] k = "transaction_vout" -> vout
          [] k = "is_force_close" -> force
          [] k = "is_graceful_close" -> graceful
          [] k = "address" -> addr
          [] k = "public_key" -> peer[1]
          [] k = "socket" -> peer[2]
          [] k = "max_tokens_per_vbyte" -> maxFee
          [] k = "tokens_per_vbyte" -> fee
          [] k = "target_confirmations" -> conf]

(***************************************************************************)
(* Channels as the backend reports them: the fields the plugin reads.       *)
(***************************************************************************)
ChannelIds == {"A", "B", "C"}
Channels == [id : ChannelIds, is_active : BOOLEAN, local_balance : 0..MaxBalance]

\* the lists of channels with pairwise different ids, in any order
ChannelLists ==
    UNION { { l \in [1..n -> Channels] : \A i, j \in 1..n : i # j => l[i].id # l[j].id } :
            n \in 0..Cardinality(ChannelIds) }

(***************************************************************************)
(* Chain addresses as the backend reports them.                             *)
(***************************************************************************)
AddressNames == <<"bc1qa", "bc1qb", "bc1qc", "bc1qd">>
ChainAddressLists ==
    UNION { { [i \in 1..n |-> [address |-> AddressNames[i], is_change |-> flags[i]]] :
                flags \in [1..n -> BOOLEAN] } : n \in 0..MaxAddresses }

(***************************************************************************)
(* Channels as getChannels filters them and the status summary counts them. *)
(***************************************************************************)
QueryChannelIds == <<"A", "B", "C", "D">>
PartnerKeys == {<<48, 50>>, <<48, 51>>}
QueryChannels(i) ==
    [id : {QueryChannelIds[i]}, is_active : BOOLEAN, is_private : BOOLEAN,
     partner_public_key : {Txt(k) : k \in PartnerKeys}]
QueryChannelLists ==
    UNION {{l \in [1..n -> UNION {QueryChannels(i) : i \in 1..n}] :
               \A i \in 1..n : l[i].id = QueryChannelIds[i]} : n \in 0..MaxQueryChannels}

VARIABLES
    op,            \* the operation this run exercises
    closePc,       \* position of the closeChannel invocation
    closeArgs,     \* its argument object
    closePayload,  \* the argument of the backend closeChannel call
    closeCalls,    \* number of backend closeChannel calls made
    closeOutcome,  \* what closeChannel gave its caller
    backendChannels, \* the node's channels, in the order the backend lists them
    changes,       \* number of changes of the node's channels so far
    payPc,         \* position of the PayInvoiceAction.payInvoice invocation
    payParams,     \* its argument object
    listCalls,     \* number of backend getChannels calls made
    listAnswer,    \* "pending", or how the backend answered getChannels: "ok", "error"
    snapshot,      \* the channel list the backend answered
    selected,      \* outgoing_channel, the result of getAvalibleChannelId
    payPayload,    \* the argument of the backend pay call
    payCalls,      \* number of backend pay calls made
    payAnswer,     \* what the backend answered to the pay call
    payOutcome,    \* what payInvoice gave its caller
    backendError,  \* the message of the backend's rejection in this run, <<>> when none
    backendLog,    \* the backend methods the other operations called, in order
    chainAddresses, \* the node's chain addresses, in the order the backend lists them
    openPc,        \* position of the LightningProvider.openChannel invocation
    openArgs0,     \* its argument object as the caller passed it
    openArgs,      \* its argument object, which openChannel may change
    openPayload,   \* the argument of the backend openChannel call
    openOutcome,   \* what openChannel gave its caller
    openPrev,      \* the earlier openChannel invocation with the same object, if any
    nodeChannels,  \* the node's channels as getChannels and the status summary read them
    reqPc,         \* position of the invocation of one of the other operations
    reqArgs,       \* its argument object
    reqPayload,    \* the argument of its last backend call
    reqOutcome,    \* what it gave its caller
    handlerPc,     \* position of the invocation of the PAY_INVOICE handler
    runtimeSettings, \* the runtime's settings, as getSetting answers
    callback,      \* whether the caller supplied a callback
    isValid,       \* what validate answered, undefined before it ran
    lndClients,    \* number of LND clients created by authenticatedLndGrpc
    content,       \* what generateObject gave the handler
    caught,        \* the message of the error the handler's catch block caught, if any
    responses,     \* the responses the callback was invoked with, in order
    handlerResult  \* what the handler gave its caller

closeVars == <<closePc, closeArgs, closePayload, closeCalls, closeOutcome>>
payVars == <<backendChannels, changes, payPc, payParams, listCalls, listAnswer, snapshot,
             selected, payPayload, payCalls, payAnswer, payOutcome>>
\* the variables of the payment other than the listing's answer
payCallVars == <<backendChannels, payPc, payParams, listCalls, listAnswer, selected,
                 payPayload, payCalls, payAnswer, payOutcome>>
openVars ==
    <<chainAddresses, openPc, openArgs0, openArgs, openPayload, openOutcome, openPrev>>
\* the state of the operations other than close and pay
reqVars == <<nodeChannels, reqPc, reqArgs, reqPayload, reqOutcome>>
\* the state of an invocation of the PAY_INVOICE handler
handlerVars ==
    <<handlerPc, runtimeSettings, callback, isValid, lndClients, content, caught,
      responses, handlerResult>>
restVars == <<backendLog, openVars, reqVars, handlerVars>>
vars == <<op, closeVars, payVars, backendError, restVars>>

Pending == [kind |-> "pending", message |-> <<>>, value |-> EmptyObj]
Thrown(message) == [kind |-> "error", message |-> message, value |-> EmptyObj]
Returned(value) == [kind |-> "ok", message |-> <<>>, value |-> value]

Init ==
    /\ op \in Operations
    /\ closePc = "idle"
    /\ closeArgs = EmptyObj
    /\ closePayload = EmptyObj
    /\ closeCalls = 0
    /\ closeOutcome = Pending
    /\ backendChannels \in CASE op = "pay" -> ChannelLists
                              [] op = "handler" ->
                                   {l \in ChannelLists : Len(l) <= MaxHandlerChannels}
                              [] OTHER -> {<<>>}
    /\ changes = 0
    /\ payPc = "idle"
    /\ payParams = EmptyObj
    /\ listCalls = 0
    /\ listAnswer = "pending"
    /\ snapshot = <<>>
    /\ selected = ""
    /\ payPayload = EmptyObj
    /\ payCalls = 0
    /\ payAnswer = Pending
    /\ payOutcome = Pending
    /\ backendError = <<>>
    /\ backendLog = <<>>
    /\ chainAddresses \in IF op \in {"open", "getChainAddresses"} THEN ChainAddressLists ELSE {<<>>}
    /\ openPc = "idle"
    /\ openArgs0 = EmptyObj
    /\ openArgs = EmptyObj
    /\ openPayload = EmptyObj
    /\ openOutcome = Pending
    /\ openPrev = <<>>
    /\ nodeChannels \in IF op \in {"getChannels", "status"} THEN QueryChannelLists ELSE {<<>>}
    /\ reqPc = "idle"
    /\ reqArgs = EmptyObj
    /\ reqPayload = EmptyObj
    /\ reqOutcome = Pending
    /\ handlerPc = "idle"
    /\ runtimeSettings = EmptyObj
    /\ callback = FALSE
    /\ isValid = Undefined
    /\ lndClients = 0
    /\ content = Pending
    /\ caught = <<>>
    /\ responses = <<>>
    /\ handlerResult = Pending

(***************************************************************************)
(* LightningProvider.closeChannel                                           *)
(***************************************************************************)
\* the mutated guard: `||` for `&&` in the transaction reference
CloseArgsMissingLoose(args) ==
    /\ ~Truthy(Get(args, "id"))
    /\ ~(Truthy(Get(args, "transaction_id")) \/ Truthy(Get(args, "transaction_vout")))

\* if (!args.id && !(args.transaction_id && args.transaction_vout)) throw
CloseArgsMissing(args) ==
    /\ ~Truthy(Get(args, "id"))
    /\ ~(Truthy(Get(args, "transaction_id")) /\ Truthy(Get(args, "transaction_vout")))

\* ...(args.k ? { k: args.k } : {})
Opt(args, k) == IF Truthy(Get(args, k)) THEN Prop(k, Get(args, k)) ELSE EmptyObj

baseArgs(args) ==
    Spread(Spread(Prop("lnd", LndClient), Opt(args, "id")),
           IF Truthy(Get(args, "transaction_id")) /\ Truthy(Get(args, "transaction_vout"))
           THEN Spread(Prop("transaction_id", Get(args, "transaction_id")),
                       Prop("transaction_vout", Get(args, "transaction_vout")))
           ELSE EmptyObj)

FeeArgs(args) ==
    Spread(Spread(Opt(args, "max_tokens_per_vbyte"), Opt(args, "tokens_per_vbyte")),
           Opt(args, "target_confirmations"))

\* the mutated force-close payload: the caller's fields are spread into it
forceCloseArgsLeaky(args) ==
    StripUndefined(Spread(Spread(baseArgs(args), args), Prop("is_force_close", Bool(TRUE))))

forceCloseArgs(args) ==
    StripUndefined(
        Spread(Spread(baseArgs(args), Prop("is_force_close", Bool(TRUE))), FeeArgs(args)))

\* the mutated cooperative payload: every optional field is assigned directly
coopCloseArgsDirect(args) ==
    Spread(Spread(baseArgs(args), Prop("is_force_close", Bool(FALSE))),
           [k \in {"is_graceful_close", "address", "max_tokens_per_vbyte",
                   "tokens_per_vbyte", "target_confirmations", "public_key",
                   "socket"} |-> Get(args, k)])

coopCloseArgs(args) ==
    StripUndefined(
        Spread(Spread(Spread(Spread(Spread(Spread(
            baseArgs(args),
            Prop("is_force_close", Bool(FALSE))),
            IF Truthy(Get(args, "is_graceful_close"))
            THEN Prop("is_graceful_close", Bool(TRUE)) ELSE EmptyObj),
            Opt(args, "address")),
            FeeArgs(args)),
            Opt(args, "public_key")),
            Opt(args, "socket")))

closeChannelPayload(args) ==
    IF Truthy(Get(args, "is_force_close")) THEN forceCloseArgs(args) ELSE coopCloseArgs(args)

CloseResult == Spread(Prop("transaction_id", Str("closetx")), Prop("transaction_vout", Num(0)))

\* a caller invokes closeChannel(args)
CloseRequest ==
    /\ op = "close"
    /\ closePc = "idle"
    /\ closePc' = "requested"
    /\ \E id \in CloseIds, tid \in CloseTxIds, vout \in CloseVouts,
          force \in OptBool, graceful \in OptBool, addr \in CloseAddresses,
          peer \in ClosePeers, maxFee \in OptFee, fee \in OptFee, conf \in OptFee :
            closeArgs' = CloseRequestOf(id, tid, vout, force, graceful, addr, peer,
                                        maxFee, fee, conf)
    /\ UNCHANGED <<op, backendError, restVars, closePayload, closeCalls, closeOutcome, payVars>>

\* the mutated entry: the backend call is counted before the validation
CloseChannelEnterCallFirst ==
    /\ closePc = "requested"
    /\ closeCalls' = closeCalls + 1
    /\ IF CloseArgsMissing(closeArgs)
       THEN /\ closePc' = "rejected"
            /\ closeOutcome' = Thrown(Wrap("Failed to close channel: ",
                   <<"Either channel id or transaction details (id and vout) are required">>))
            /\ UNCHANGED closePayload
       ELSE /\ closePc' = "submitted"
            /\ closePayload' = closeChannelPayload(closeArgs)
            /\ UNCHANGED closeOutcome
    /\ UNCHANGED <<op, backendError, restVars, closeArgs, payVars>>

\* closeChannel up to its await: validation, payload construction, backend call
CloseChannelEnter ==
    /\ closePc = "requested"
    /\ IF CloseArgsMissing(closeArgs)
       THEN /\ closePc' = "rejected"
            /\ closeOutcome' = Thrown(Wrap("Failed to close channel: ",
                   <<"Either channel id or transaction details (id and vout) are required">>))
            /\ UNCHANGED <<closePayload, closeCalls>>
       ELSE /\ closePc' = "submitted"
            /\ closePayload' = closeChannelPayload(closeArgs)
            /\ closeCalls' = closeCalls + 1
            /\ UNCHANGED closeOutcome
    /\ UNCHANGED <<op, backendError, restVars, closeArgs, payVars>>

\* the backend call resolves: closeChannel returns its result
CloseChannelReturn ==
    /\ closePc = "submitted"
    /\ closePc' = "confirmed"
    /\ closeOutcome' = Returned(CloseResult)
    /\ UNCHANGED <<op, backendError, restVars, closeArgs, closePayload, closeCalls, payVars>>

\* the backend call rejects: the catch block rethrows
CloseChannelFail(m) ==
    /\ closePc = "submitted"
    /\ closePc' = "failed"
    /\ closeOutcome' = Thrown(Wrap("Failed to close channel: ", <<m>>))
    /\ backendError' = <<m>>
    /\ UNCHANGED <<op, restVars, closeArgs, closePayload, closeCalls, payVars>>

NextClose ==
    \/ CloseRequest
    \/ CloseChannelEnter
    \/ CloseChannelReturn
    \/ \E m \in BackendMessages : CloseChannelFail(m)

InitClose == Init /\ op = "close"

SpecClose == InitClose /\ [][NextClose]_vars

(***************************************************************************)
(* PayInvoiceAction.getAvalibleChannelId                                    *)
(***************************************************************************)
\* the mutated filter: every channel passes
filteredActiveChannelsAll(channels) == channels

\* channels.filter((channel) => channel.is_active === true)
filteredActiveChannels(channels) == SelectSeq(channels, LAMBDA c : c.is_active = TRUE)

\* the mutated comparator: a.local_balance - b.local_balance
compareAscending(a, b) == a.local_balance - b.local_balance

\* (a, b) => b.local_balance - a.local_balance
compareChannels(a, b) == b.local_balance - a.local_balance

\* Array.prototype.sort is stable: x, which preceded every element of the
\* sorted rest, goes before the first element it does not have to follow
RECURSIVE InsertSorted(_, _)
InsertSorted(x, rest) ==
    IF rest = <<>> THEN <<x>>
    ELSE IF compareChannels(x, Head(rest)) > 0
         THEN <<Head(rest)>> \o InsertSorted(x, Tail(rest))
         ELSE <<x>> \o rest

RECURSIVE sortedChannels(_)
sortedChannels(channels) ==
    IF channels = <<>> THEN <<>>
    ELSE InsertSorted(Head(channels), sortedChannels(Tail(channels)))

\* sortedChannels[0].id, or "" when no channel is left
getAvalibleChannelId(channels) ==
    LET sorted == sortedChannels(filteredActiveChannels(channels))
    IN  IF Len(sorted) > 0 THEN sorted[1].id ELSE ""

(***************************************************************************)
(* PayInvoiceAction.payInvoice and LightningProvider.payInvoice             *)
(***************************************************************************)
PayRequest == Str("lnbc1...")
\* outgoing_channel values a caller may put in its PayArgs
CallerChannels == {"A"}
PayArgsSet ==
    {Prop("request", PayRequest)} \cup
    {Spread(Prop("request", PayRequest), Prop("outgoing_channel", Str(c))) : c \in CallerChannels}

\* what the backend may answer to pay: is_confirmed true, false or missing
PayResults ==
    LET base == Spread(Spread(Prop("id", Str("hash1")), Prop("tokens", Num(1))),
                       Prop("fee", Num(0)))
    IN  {base} \cup {Spread(base, Prop("is_confirmed", Bool(b))) : b \in BOOLEAN}

\* the mutated argument object: { ...params, outgoing_channel: outgoing_channel }
requestArgsSelectedLast(outgoing_channel, params) ==
    Spread(params, Prop("outgoing_channel", Str(outgoing_channel)))

\* const requestArgs = { outgoing_channel: outgoing_channel, ...params }
requestArgs(outgoing_channel, params) ==
    Spread(Prop("outgoing_channel", Str(outgoing_channel)), params)

\* LightningProvider.payInvoice: pay({ lnd: this.lndClient, ...payInvoiceArgs })
payArgs(payInvoiceArgs) == Spread(Prop("lnd", LndClient), payInvoiceArgs)

\* the mutated receipt: the payment is reported as confirmed
receiptConfirmed(retPayInvoice, outgoing_channel) ==
    Spread(Spread(retPayInvoice, Prop("is_confirmed", Bool(TRUE))),
           Prop("outgoing_channel", Str(outgoing_channel)))

\* return { ...retPayInvoice, outgoing_channel: outgoing_channel }
receipt(retPayInvoice, outgoing_channel) ==
    Spread(retPayInvoice, Prop("outgoing_channel", Str(outgoing_channel)))

\* the mutated catch block: the payment is attempted again
payErrorRetry == "listing"

\* catch (error) { ...; throw error } : the invocation ends
payErrorNext == "raised"

\* a caller invokes payInvoice(params): getAvalibleChannelId calls getLndChannel,
\* which calls the backend's getChannels
PayInvoiceCall ==
    /\ op = "pay"
    /\ payPc = "idle"
    /\ payPc' = "listing"
    /\ \E params \in PayArgsSet : payParams' = params
    /\ listCalls' = listCalls + 1
    /\ UNCHANGED <<op, backendError, restVars,
                   closeVars, backendChannels, changes, listAnswer, snapshot, selected,
                   payPayload, payCalls, payAnswer, payOutcome>>

\* the node's channel state changes between the backend's answer to getChannels
\* and its handling of pay: the selected channel goes (in)active or its balance
\* moves (a change before the answer is another initial list, and the plugin
\* reads no channel again after it)
BackendChannelChange ==
    /\ payPc = "paying"
    /\ changes < MaxChanges
    /\ \E i \in 1..Len(backendChannels) :
         \E c \in Channels :
            /\ backendChannels[i].id = selected
            /\ c.id = selected
            /\ c # backendChannels[i]
            /\ backendChannels' = [backendChannels EXCEPT ![i] = c]
    /\ changes' = changes + 1
    /\ UNCHANGED <<op, backendError, restVars,
                   closeVars, payPc, payParams, listCalls, listAnswer, snapshot, selected,
                   payPayload, payCalls, payAnswer, payOutcome>>

\* getChannels resolves: getAvalibleChannelId selects, payInvoice either throws
\* "no avalible channel" or calls the backend's pay
GetChannelsReturn ==
    /\ payPc = "listing"
    /\ listAnswer' = "ok"
    /\ snapshot' = backendChannels
    /\ selected' = getAvalibleChannelId(backendChannels)
    /\ IF selected' = ""
       THEN /\ payPc' = payErrorNext
            /\ payOutcome' = Thrown(<<"no avalible channel">>)
            /\ UNCHANGED <<payPayload, payCalls, listCalls>>
       ELSE /\ payPc' = "paying"
            /\ payPayload' = payArgs(requestArgs(selected', payParams))
            /\ payCalls' = payCalls + 1
            /\ UNCHANGED <<payOutcome, listCalls>>
    /\ UNCHANGED <<op, backendError, restVars,
                   closeVars, backendChannels, changes, payParams, payAnswer>>

\* getChannels rejects: getLndChannel wraps the error, the callers rethrow it
GetChannelsFail(m) ==
    /\ payPc = "listing"
    /\ payPc' = payErrorNext
    /\ listAnswer' = "error"
    /\ payOutcome' = Thrown(Wrap("Failed to get LND channels: ", <<m>>))
    /\ backendError' = <<m>>
    /\ UNCHANGED <<op, restVars,
                   closeVars, backendChannels, changes, payParams, listCalls, snapshot,
                   selected, payPayload, payCalls, payAnswer>>

\* pay resolves: payInvoice returns the result with the selected channel added
PayReturn ==
    /\ payPc = "paying"
    /\ payPc' = "returned"
    /\ \E ret \in PayResults :
         /\ payAnswer' = Returned(ret)
         /\ payOutcome' = Returned(receipt(ret, selected))
    /\ UNCHANGED <<op, backendError, restVars,
                   closeVars, backendChannels, changes, payParams, listCalls, listAnswer,
                   snapshot, selected, payPayload, payCalls>>

\* pay rejects: LightningProvider.payInvoice wraps the error, payInvoice rethrows it
PayFail(m) ==
    /\ payPc = "paying"
    /\ payPc' = payErrorNext
    /\ payAnswer' = Thrown(<<m>>)
    /\ payOutcome' = Thrown(Wrap("Failed to pay invoice: ", <<m>>))
    /\ backendError' = <<m>>
    /\ UNCHANGED <<op, restVars,
                   closeVars, backendChannels, changes, payParams, listCalls, listAnswer,
                   snapshot, selected, payPayload, payCalls>>

NextPay ==
    \/ PayInvoiceCall
    \/ BackendChannelChange
    \/ GetChannelsReturn
    \/ \E m \in BackendMessages : GetChannelsFail(m)
    \/ PayReturn
    \/ \E m \in BackendMessages : PayFail(m)

InitPay == Init /\ op = "pay"

SpecPay == InitPay /\ [][NextPay]_vars

(***************************************************************************)
(* LightningProvider.openChannel and getChainAddresses                      *)
(***************************************************************************)
OpenTokens == {Undefined} \cup {Num(n) : n \in -1..MaxTokens}
OpenPartnerKeys == {Undefined, Str(""), Str("02peer")}
OpenCloseAddresses == {Undefined, Str(""), Str("bc1qcaller")}

\* an OpenChannelArgs object: an option that is not given is no key of it
OpenRequestOf(tokens, partner, address, private) ==
    StripUndefined(
        Spread(Spread(Spread(Prop("local_tokens", tokens), Prop("partner_public_key", partner)),
                      Prop("cooperative_close_address", address)),
               Prop("is_private", private)))

\* if (!args.local_tokens || !args.partner_public_key) throw
OpenArgsMissing(args) ==
    ~Truthy(Get(args, "local_tokens")) \/ ~Truthy(Get(args, "partner_public_key"))

\* the mutated lookup: the first address, change or not
mainAddressAny(addresses) == IF Len(addresses) > 0 THEN 1 ELSE 0

\* addresses.find((addr) => !addr.is_change): the index of the first address
\* that is no change address, 0 when there is none
mainAddress(addresses) ==
    LET found == {i \in 1..Len(addresses) : ~addresses[i].is_change}
    IN  IF found = {} THEN 0 ELSE CHOOSE i \in found : \A j \in found : i <= j

\* openChannel({ lnd: this.lndClient, ...args })
openChannelArgs(args) == Spread(Prop("lnd", LndClient), args)

OpenResult == Spread(Prop("transaction_id", Str("fundingtx")), Prop("transaction_vout", Num(0)))

\* a caller invokes openChannel(args)
OpenRequest ==
    /\ op = "open"
    /\ openPc = "idle"
    /\ openPc' = "requested"
    /\ \E tokens \in OpenTokens, partner \in OpenPartnerKeys, address \in OpenCloseAddresses,
          private \in {Undefined, Bool(TRUE)} :
            /\ openArgs0' = OpenRequestOf(tokens, partner, address, private)
            /\ openArgs' = openArgs0'
    /\ UNCHANGED <<op, handlerVars, closeVars, payVars, reqVars, openPrev, backendError, backendLog, chainAddresses,
                   openPayload, openOutcome>>

\* openChannel up to its first await: validation, then either the address
\* listing or the backend openChannel call
OpenChannelEnter ==
    /\ openPc = "requested"
    /\ IF OpenArgsMissing(openArgs)
       THEN /\ openPc' = "rejected"
            /\ openOutcome' = Thrown(Wrap("Failed to open channel: ",
                   <<"local_tokens and partner_public_key are required">>))
            /\ UNCHANGED <<backendLog, openPayload>>
       ELSE IF ~Truthy(Get(openArgs, "cooperative_close_address"))
       THEN /\ openPc' = "listing"
            /\ backendLog' = Append(backendLog, "getChainAddresses")
            /\ UNCHANGED <<openPayload, openOutcome>>
       ELSE /\ openPc' = "submitted"
            /\ backendLog' = Append(backendLog, "openChannel")
            /\ openPayload' = openChannelArgs(openArgs)
            /\ UNCHANGED openOutcome
    /\ UNCHANGED <<op, handlerVars, closeVars, payVars, reqVars, openPrev, backendError, chainAddresses, openArgs0, openArgs>>

\* the mutated continuation: the address goes into a copy of args
OpenAddressesReturnCopy ==
    /\ openPc = "listing"
    /\ openPc' = "submitted"
    /\ backendLog' = Append(backendLog, "openChannel")
    /\ openPayload' =
         openChannelArgs(
            IF mainAddress(chainAddresses) # 0
            THEN Spread(openArgs, Prop("cooperative_close_address",
                                       Str(chainAddresses[mainAddress(chainAddresses)].address)))
            ELSE openArgs)
    /\ UNCHANGED <<op, handlerVars, closeVars, payVars, reqVars, openPrev, backendError, chainAddresses,
                   openArgs0, openArgs, openOutcome>>

\* getChainAddresses resolves: the first non-change address, if any, is written
\* into args, and the backend openChannel is called
OpenAddressesReturn ==
    /\ openPc = "listing"
    /\ openPc' = "submitted"
    /\ openArgs' =
         IF mainAddress(chainAddresses) # 0
         THEN Spread(openArgs, Prop("cooperative_close_address",
                                    Str(chainAddresses[mainAddress(chainAddresses)].address)))
         ELSE openArgs
    /\ backendLog' = Append(backendLog, "openChannel")
    /\ openPayload' = openChannelArgs(openArgs')
    /\ UNCHANGED <<op, handlerVars, closeVars, payVars, reqVars, openPrev, backendError, chainAddresses, openArgs0, openOutcome>>

\* the mutated catch: the lookup is best-effort, the open goes on without address
OpenAddressesFailProceed(m) ==
    /\ openPc = "listing"
    /\ openPc' = "submitted"
    /\ backendError' = <<m>>
    /\ backendLog' = Append(backendLog, "openChannel")
    /\ openPayload' = openChannelArgs(openArgs)
    /\ UNCHANGED <<op, handlerVars, closeVars, payVars, reqVars, openPrev, chainAddresses, openArgs0,
                   openArgs, openOutcome>>

\* getChainAddresses rejects: its catch block wraps the error, and the catch
\* block of openChannel wraps it again
OpenAddressesFail(m) ==
    /\ openPc = "listing"
    /\ openPc' = "failed"
    /\ backendError' = <<m>>
    /\ openOutcome' = Thrown(Wrap("Failed to open channel: ",
                                  Wrap("Failed to get chain addresses: ", <<m>>)))
    /\ UNCHANGED <<op, handlerVars, closeVars, payVars, reqVars, openPrev, backendLog, chainAddresses, openArgs0, openArgs,
                   openPayload>>

\* the backend openChannel resolves
OpenChannelReturn ==
    /\ openPc = "submitted"
    /\ openPc' = "confirmed"
    /\ openOutcome' = Returned(OpenResult)
    /\ UNCHANGED <<op, handlerVars, closeVars, payVars, reqVars, openPrev, backendError, backendLog, chainAddresses, openArgs0,
                   openArgs, openPayload>>

\* the backend openChannel rejects: the catch block rethrows
OpenChannelFail(m) ==
    /\ openPc = "submitted"
    /\ openPc' = "failed"
    /\ backendError' = <<m>>
    /\ openOutcome' = Thrown(Wrap("Failed to open channel: ", <<m>>))
    /\ UNCHANGED <<op, handlerVars, closeVars, payVars, reqVars, openPrev, backendLog, chainAddresses, openArgs0, openArgs,
                   openPayload>>

\* the caller invokes openChannel once more, with the same object
OpenAgain ==
    /\ op = "open"
    /\ openPc \in {"rejected", "confirmed", "failed"}
    /\ openPrev = <<>>
    /\ openPrev' = <<[request |-> openArgs0, after |-> openArgs, log |-> backendLog,
                      pc |-> openPc]>>
    /\ openPc' = "requested"
    /\ openArgs0' = openArgs
    /\ backendLog' = <<>>
    /\ backendError' = <<>>
    /\ openPayload' = EmptyObj
    /\ openOutcome' = Pending
    /\ UNCHANGED <<op, handlerVars, closeVars, payVars, reqVars, chainAddresses, openArgs>>

NextOpen ==
    \/ OpenRequest
    \/ OpenAgain
    \/ OpenChannelEnter
    \/ OpenAddressesReturn
    \/ \E m \in BackendMessages : OpenAddressesFail(m)
    \/ OpenChannelReturn
    \/ \E m \in BackendMessages : OpenChannelFail(m)

InitOpen == Init /\ op = "open"

SpecOpen == InitOpen /\ [][NextOpen]_vars

(***************************************************************************)
(* CreateInvoiceAction.createInvoice and LightningProvider.createInvoice    *)
(***************************************************************************)
InvoiceTokens == {Undefined} \cup {Num(n) : n \in -1..MaxTokens}
InvoiceMtokens == {Undefined, Str("0"), Str("1000")}
InvoiceDescriptions == {Undefined, Str("coffee")}

InvoiceRequestOf(tokens, mtokens, description, private) ==
    StripUndefined(
        Spread(Spread(Prop("tokens", tokens), Prop("mtokens", mtokens)),
               Spread(Prop("description", description),
                      Prop("is_including_private_channels", private))))

\* if (!params.tokens) throw new Error("tokens is required.")
TokensMissing(params) == ~Truthy(Get(params, "tokens"))

\* createInvoice({ lnd: this.lndClient, ...createInvoiceArgs })
createInvoiceArgs(params) == Spread(Prop("lnd", LndClient), params)

InvoiceResult(payload) ==
    Spread(Spread(Prop("id", Str("invoice1")), Prop("request", Str("lnbc1..."))),
           Prop("tokens", Get(payload, "tokens")))

\* a caller invokes CreateInvoiceAction.createInvoice(params)
CreateInvoiceRequest ==
    /\ op = "createInvoice"
    /\ reqPc = "idle"
    /\ reqPc' = "requested"
    /\ \E tokens \in InvoiceTokens, mtokens \in InvoiceMtokens,
          description \in InvoiceDescriptions, private \in OptBool :
            reqArgs' = InvoiceRequestOf(tokens, mtokens, description, private)
    /\ UNCHANGED <<op, handlerVars, closeVars, payVars, backendError, backendLog, openVars,
                   nodeChannels, reqPayload, reqOutcome>>

\* the action's validation, then the provider's createInvoice up to its await
CreateInvoiceEnter ==
    /\ op = "createInvoice"
    /\ reqPc = "requested"
    /\ IF TokensMissing(reqArgs)
       THEN /\ reqPc' = "rejected"
            /\ reqOutcome' = Thrown(<<"tokens is required.">>)
            /\ UNCHANGED <<backendLog, reqPayload>>
       ELSE /\ reqPc' = "submitted"
            /\ backendLog' = Append(backendLog, "createInvoice")
            /\ reqPayload' = createInvoiceArgs(reqArgs)
            /\ UNCHANGED reqOutcome
    /\ UNCHANGED <<op, handlerVars, closeVars, payVars, backendError, openVars, nodeChannels, reqArgs>>

\* the backend call resolves: provider and action return its result
CreateInvoiceReturn ==
    /\ op = "createInvoice"
    /\ reqPc = "submitted"
    /\ reqPc' = "confirmed"
    /\ reqOutcome' = Returned(InvoiceResult(reqPayload))
    /\ UNCHANGED <<op, handlerVars, closeVars, payVars, backendError, backendLog, openVars,
                   nodeChannels, reqArgs, reqPayload>>

\* the backend call rejects: the provider wraps the message, the action rethrows
CreateInvoiceFail(m) ==
    /\ op = "createInvoice"
    /\ reqPc = "submitted"
    /\ reqPc' = "failed"
    /\ backendError' = <<m>>
    /\ reqOutcome' = Thrown(Wrap("Failed to create invoice: ", <<m>>))
    /\ UNCHANGED <<op, handlerVars, closeVars, payVars, backendLog, openVars,
                   nodeChannels, reqArgs, reqPayload>>

NextInvoice ==
    \/ CreateInvoiceRequest
    \/ CreateInvoiceEnter
    \/ CreateInvoiceReturn
    \/ \E m \in BackendMessages : CreateInvoiceFail(m)

InitInvoice == Init /\ op = "createInvoice"

SpecInvoice == InitInvoice /\ [][NextInvoice]_vars

(***************************************************************************)
(* CreateChainAddressAction.createChainAddress and                          *)
(* LightningProvider.createChainAddress                                     *)
(***************************************************************************)
AddressFormats ==
    {Undefined, Str(""), Str("p2wpkh"), Str("np2wpkh"), Str("p2tr"),
     Str("bogus"), Str("P2TR"), Str("p2pkh")}
CreatedAddresses == {Str("bc1qnew"), Str("bc1pnew")}

AddressRequestOf(format, unused) ==
    StripUndefined(Spread(Prop("format", format), Prop("is_unused", unused)))

\* ["p2wpkh", "np2wpkh", "p2tr"]
validFormats == {Str("p2wpkh"), Str("np2wpkh"), Str("p2tr")}

\* params.format && !["p2wpkh", "np2wpkh", "p2tr"].includes(params.format)
InvalidFormat(params) ==
    Truthy(Get(params, "format")) /\ Get(params, "format") \notin validFormats

\* const format = args.format || "p2wpkh"
addressFormat(args) ==
    IF Truthy(Get(args, "format")) THEN Get(args, "format") ELSE Str("p2wpkh")

\* createChainAddress({ lnd: this.lndClient, format, is_unused: args.is_unused })
createChainAddressArgs(args) ==
    Spread(Spread(Prop("lnd", LndClient), Prop("format", addressFormat(args))),
           Prop("is_unused", Get(args, "is_unused")))

\* a caller invokes CreateChainAddressAction.createChainAddress(params)
CreateAddressRequest ==
    /\ op = "createChainAddress"
    /\ reqPc = "idle"
    /\ reqPc' = "requested"
    /\ \E format \in AddressFormats, unused \in OptBool :
            reqArgs' = AddressRequestOf(format, unused)
    /\ UNCHANGED <<op, handlerVars, closeVars, payVars, backendError, backendLog, openVars,
                   nodeChannels, reqPayload, reqOutcome>>

\* the action's validation, then the provider's createChainAddress up to its await
CreateAddressEnter ==
    /\ op = "createChainAddress"
    /\ reqPc = "requested"
    /\ IF InvalidFormat(reqArgs)
       THEN /\ reqPc' = "rejected"
            /\ reqOutcome' = Thrown(
                   <<"Invalid address format. Must be one of: p2wpkh, np2wpkh, p2tr">>)
            /\ UNCHANGED <<backendLog, reqPayload>>
       ELSE /\ reqPc' = "submitted"
            /\ backendLog' = Append(backendLog, "createChainAddress")
            /\ reqPayload' = createChainAddressArgs(reqArgs)
            /\ UNCHANGED reqOutcome
    /\ UNCHANGED <<op, handlerVars, closeVars, payVars, backendError, openVars, nodeChannels, reqArgs>>

\* the backend call resolves with a new address
CreateAddressReturn ==
    /\ op = "createChainAddress"
    /\ reqPc = "submitted"
    /\ reqPc' = "confirmed"
    /\ \E address \in CreatedAddresses : reqOutcome' = Returned(Prop("address", address))
    /\ UNCHANGED <<op, handlerVars, closeVars, payVars, backendError, backendLog, openVars,
                   nodeChannels, reqArgs, reqPayload>>

\* the backend call rejects: the provider wraps the message, the action rethrows
CreateAddressFail(m) ==
    /\ op = "createChainAddress"
    /\ reqPc = "submitted"
    /\ reqPc' = "failed"
    /\ backendError' = <<m>>
    /\ reqOutcome' = Thrown(Wrap("Failed to create chain address: ", <<m>>))
    /\ UNCHANGED <<op, handlerVars, closeVars, payVars, backendLog, openVars,
                   nodeChannels, reqArgs, reqPayload>>

NextAddress ==
    \/ CreateAddressRequest
    \/ CreateAddressEnter
    \/ CreateAddressReturn
    \/ \E m \in BackendMessages : CreateAddressFail(m)

InitAddress == Init /\ op = "createChainAddress"

SpecAddress == InitAddress /\ [][NextAddress]_vars

(***************************************************************************)
(* GetChannelsAction.getChannels                                            *)
(***************************************************************************)
FilterKeys ==
    {Undefined, Txt(<<>>), Txt(<<32>>), Txt(<<9>>), Txt(<<160>>), Txt(<<48, 50>>),
     Txt(<<48, 51>>), Txt(<<32, 48, 50>>)}

ChannelsRequestOf(active, offline, private, public, key) ==
    StripUndefined(
        Spread(Spread(Prop("is_active", active), Prop("is_offline", offline)),
               Spread(Spread(Prop("is_private", private), Prop("is_public", public)),
                      Prop("partner_public_key", key))))

\* the code units String.prototype.trim removes: ECMAScript's WhiteSpace (tab,
\* vertical tab, form feed, U+FEFF and the space separators U+0020, U+00A0,
\* U+1680, U+2000..U+200A, U+202F, U+205F, U+3000) and LineTerminator (line
\* feed, carriage return, U+2028, U+2029)
WhiteSpace ==
    {9, 11, 12, 32, 160, 5760, 8239, 8287, 12288, 65279} \cup (8192..8202)
        \cup {10, 13, 8232, 8233}

\* String.prototype.trim on a sequence of characters
RECURSIVE TrimStart(_)
TrimStart(chars) ==
    IF chars # <<>> /\ Head(chars) \in WhiteSpace THEN TrimStart(Tail(chars)) ELSE chars
RECURSIVE TrimEnd(_)
TrimEnd(chars) ==
    IF chars # <<>> /\ chars[Len(chars)] \in WhiteSpace
    THEN TrimEnd(SubSeq(chars, 1, Len(chars) - 1)) ELSE chars
Trim(chars) == TrimEnd(TrimStart(chars))

\* the mutated filter: both is_active and is_offline are applied
activeFilterBoth(params, channels) ==
    SelectSeq(
        IF Get(params, "is_active") # Undefined
        THEN SelectSeq(channels, LAMBDA c : Bool(c.is_active) = Get(params, "is_active"))
        ELSE channels,
        LAMBDA c : Get(params, "is_offline") # Undefined
                      => Bool(c.is_active) = Bool(~Truthy(Get(params, "is_offline"))))

\* the mutated filter: is_offline is read before is_active
activeFilterOfflineFirst(params, channels) ==
    IF Get(params, "is_offline") # Undefined
    THEN SelectSeq(channels,
             LAMBDA c : Bool(c.is_active) = Bool(~Truthy(Get(params, "is_offline"))))
    ELSE IF Get(params, "is_active") # Undefined
    THEN SelectSeq(channels, LAMBDA c : Bool(c.is_active) = Get(params, "is_active"))
    ELSE channels

\* if (params.is_active !== undefined) ... else if (params.is_offline !== undefined) ...
activeFilter(params, channels) ==
    IF Get(params, "is_active") # Undefined
    THEN SelectSeq(channels, LAMBDA c : Bool(c.is_active) = Get(params, "is_active"))
    ELSE IF Get(params, "is_offline") # Undefined
    THEN SelectSeq(channels,
             LAMBDA c : Bool(c.is_active) = Bool(~Truthy(Get(params, "is_offline"))))
    ELSE channels

\* if (params.is_private !== undefined) ... else if (params.is_public !== undefined) ...
privateFilter(params, channels) ==
    IF Get(params, "is_private") # Undefined
    THEN SelectSeq(channels, LAMBDA c : Bool(c.is_private) = Get(params, "is_private"))
    ELSE IF Get(params, "is_public") # Undefined
    THEN SelectSeq(channels,
             LAMBDA c : Bool(c.is_private) = Bool(~Truthy(Get(params, "is_public"))))
    ELSE channels

\* if (params.partner_public_key && params.partner_public_key.trim() !== "") ...
partnerFilter(params, channels) ==
    IF /\ Truthy(Get(params, "partner_public_key"))
       /\ Trim(Get(params, "partner_public_key")[2]) # <<>>
    THEN SelectSeq(channels,
             LAMBDA c : c.partner_public_key = Get(params, "partner_public_key"))
    ELSE channels

filteredChannels(params, channels) ==
    partnerFilter(params, privateFilter(params, activeFilter(params, channels)))

\* getLndChannel(args = {}) : every filter of the backend call is undefined
getLndChannelArgs(args) ==
    Spread(Prop("lnd", LndClient),
           [k \in {"is_active", "is_offline", "is_private", "is_public",
                   "partner_public_key"} |-> Get(args, k)])

\* a caller invokes GetChannelsAction.getChannels(params): the channels are
\* listed without any filter
QueryChannelsCall ==
    /\ op = "getChannels"
    /\ reqPc = "idle"
    /\ reqPc' = "listing"
    /\ \E active \in OptBool, offline \in OptBool, private \in OptBool,
          public \in OptBool, key \in FilterKeys :
            reqArgs' = ChannelsRequestOf(active, offline, private, public, key)
    /\ backendLog' = Append(backendLog, "getChannels")
    /\ reqPayload' = getLndChannelArgs(EmptyObj)
    /\ UNCHANGED <<op, handlerVars, closeVars, payCallVars, snapshot, changes, backendError, openVars, nodeChannels, reqOutcome>>

\* the backend answers the listing with the channels the node holds at that
\* moment; the answer travels to the plugin
QueryChannelsAnswer ==
    /\ op = "getChannels"
    /\ reqPc = "listing"
    /\ reqPc' = "answered"
    /\ snapshot' = nodeChannels
    /\ UNCHANGED <<op, handlerVars, closeVars, payCallVars, changes, backendError, backendLog,
                   openVars, nodeChannels, reqArgs, reqPayload, reqOutcome>>

\* the node's channel set changes after the backend answered and before the
\* action resumes: a channel goes active or inactive, or a new channel opens
\* (a change before the answer is another initial list)
NodeChannelChange ==
    /\ op = "getChannels"
    /\ reqPc = "answered"
    /\ changes < MaxChanges
    /\ changes' = changes + 1
    /\ \/ \E i \in 1..Len(nodeChannels) :
             nodeChannels' = [nodeChannels EXCEPT ![i].is_active = ~@]
       \/ /\ Len(nodeChannels) < Len(QueryChannelIds)
          /\ nodeChannels' =
                Append(nodeChannels,
                       [id |-> QueryChannelIds[Len(nodeChannels) + 1], is_active |-> TRUE,
                        is_private |-> FALSE, partner_public_key |-> Txt(<<48, 50>>)])
    /\ UNCHANGED <<op, handlerVars, closeVars, payCallVars, snapshot, backendError, backendLog, openVars,
                   reqPc, reqArgs, reqPayload, reqOutcome>>

\* the mutated continuation: the channels opened since the answer are read from
\* the node and added to the listing
QueryChannelsReturnWithNew ==
    /\ op = "getChannels"
    /\ reqPc = "answered"
    /\ reqPc' = "confirmed"
    /\ reqOutcome' =
          Returned(Prop("channels",
              filteredChannels(reqArgs,
                  snapshot \o SubSeq(nodeChannels, Len(snapshot) + 1, Len(nodeChannels)))))
    /\ UNCHANGED <<op, handlerVars, closeVars, payVars, backendError, backendLog, openVars,
                   nodeChannels, reqArgs, reqPayload>>

\* the awaited listing resolves with the answer: the action filters the list it
\* was given and returns it
QueryChannelsReturn ==
    /\ op = "getChannels"
    /\ reqPc = "answered"
    /\ reqPc' = "confirmed"
    /\ reqOutcome' = Returned(Prop("channels", filteredChannels(reqArgs, snapshot)))
    /\ UNCHANGED <<op, handlerVars, closeVars, payVars, backendError, backendLog, openVars,
                   nodeChannels, reqArgs, reqPayload>>

\* the backend rejects: getLndChannel wraps the message, the action lets it pass
QueryChannelsFail(m) ==
    /\ op = "getChannels"
    /\ reqPc = "listing"
    /\ reqPc' = "failed"
    /\ backendError' = <<m>>
    /\ reqOutcome' = Thrown(Wrap("Failed to get LND channels: ", <<m>>))
    /\ UNCHANGED <<op, handlerVars, closeVars, payVars, backendLog, openVars,
                   nodeChannels, reqArgs, reqPayload>>

NextChannels ==
    \/ QueryChannelsCall
    \/ QueryChannelsAnswer
    \/ NodeChannelChange
    \/ QueryChannelsReturn
    \/ \E m \in BackendMessages : QueryChannelsFail(m)

InitChannels == Init /\ op = "getChannels"

SpecChannels == InitChannels /\ [][NextChannels]_vars

(***************************************************************************)
(* LightningProvider.getChainAddresses, getChainBalance and getLndIdentity, *)
(* called on their own: one backend call each, no arguments.                *)
(***************************************************************************)
QueryOps == {"getChainAddresses", "getChainBalance", "getLndIdentity"}

\* the backend method each of them awaits
BackendMethod(o) ==
    CASE o = "getChainAddresses" -> "getChainAddresses"
      [] o = "getChainBalance" -> "getChainBalance"
      [] o = "getLndIdentity" -> "getIdentity"

\* throw new Error(`Failed to get ...: ${error.message}`)
ErrorPrefix(o) ==
    CASE o = "getChainAddresses" -> "Failed to get chain addresses: "
      [] o = "getChainBalance" -> "Failed to get chain balance: "
      [] o = "getLndIdentity" -> "Failed to get LND identity: "

NodePublicKey == "02node"

QueryResults(o) ==
    CASE o = "getChainAddresses" -> {Prop("addresses", chainAddresses)}
      [] o = "getChainBalance" -> {Prop("chain_balance", Num(n)) : n \in 0..MaxBalance}
      [] o = "getLndIdentity" -> {Prop("public_key", Str(NodePublicKey))}

\* a caller invokes the method: it awaits the backend call
QueryCall ==
    /\ op \in QueryOps
    /\ reqPc = "idle"
    /\ reqPc' = "called"
    /\ backendLog' = Append(backendLog, BackendMethod(op))
    /\ reqPayload' = Prop("lnd", LndClient)
    /\ UNCHANGED <<op, handlerVars, closeVars, payVars, backendError, openVars, nodeChannels,
                   reqArgs, reqOutcome>>

\* the backend answers: the method returns the result
QueryReturn ==
    /\ op \in QueryOps
    /\ reqPc = "called"
    /\ reqPc' = "confirmed"
    /\ \E result \in QueryResults(op) : reqOutcome' = Returned(result)
    /\ UNCHANGED <<op, handlerVars, closeVars, payVars, backendError, backendLog, openVars,
                   nodeChannels, reqArgs, reqPayload>>

\* the backend rejects: the catch block rethrows with the method's prefix
QueryFail(m) ==
    /\ op \in QueryOps
    /\ reqPc = "called"
    /\ reqPc' = "failed"
    /\ backendError' = <<m>>
    /\ reqOutcome' = Thrown(Wrap(ErrorPrefix(op), <<m>>))
    /\ UNCHANGED <<op, handlerVars, closeVars, payVars, backendLog, openVars,
                   nodeChannels, reqArgs, reqPayload>>

NextQuery ==
    \/ QueryCall
    \/ QueryReturn
    \/ \E m \in BackendMessages : QueryFail(m)

InitQuery == Init /\ op \in QueryOps

SpecQuery == InitQuery /\ [][NextQuery]_vars

(***************************************************************************)
(* lndProvider.get, the status summary, with initLightningProvider and the  *)
(* constructor's check of the credentials                                   *)
(***************************************************************************)
Settings == {Undefined, Str(""), Str("set")}
AgentNames == {Undefined, Str(""), Str("Alice")}
\* messages of the errors authenticatedLndGrpc may throw
ClientMessages == {"invalid certificate"}

StatusRequestOf(cert, macaroon, socket, agentName) ==
    StripUndefined(
        Spread(Spread(Prop("LND_TLS_CERT", cert), Prop("LND_MACAROON", macaroon)),
               Spread(Prop("LND_SOCKET", socket), Prop("agentName", agentName))))

\* if (!cert || !macaroon || !socket) throw new Error("Missing required LND credentials")
CredentialsMissing(settings) ==
    \/ ~Truthy(Get(settings, "LND_TLS_CERT"))
    \/ ~Truthy(Get(settings, "LND_MACAROON"))
    \/ ~Truthy(Get(settings, "LND_SOCKET"))

\* state?.agentName || "The agent"
agentNameOf(state) ==
    IF Truthy(Get(state, "agentName")) THEN Get(state, "agentName")[2] ELSE "The agent"

\* `${agentName}'s Lightning Node publickey: ${nodePubkey}\nChannel count: ${channels.length}`
statusText(state, nodePubkey, channels) ==
    Str(<<agentNameOf(state), "'s Lightning Node publickey: ", nodePubkey,
          "\nChannel count: ", ToString(Len(channels))>>)

\* the runtime invokes lndProvider.get: the provider is constructed from the
\* settings and getLndIdentity is awaited; a constructor error is caught
StatusCall ==
    /\ op = "status"
    /\ reqPc = "idle"
    /\ \E cert \in Settings, macaroon \in Settings, socket \in Settings,
          agentName \in AgentNames :
            reqArgs' = StatusRequestOf(cert, macaroon, socket, agentName)
    /\ IF CredentialsMissing(reqArgs')
       THEN /\ reqPc' = "unconfigured"
            /\ reqOutcome' = Returned(Null)
            /\ UNCHANGED <<backendLog, reqPayload, lndClients>>
       ELSE /\ reqPc' = "identity"
            /\ lndClients' = lndClients + 1
            /\ backendLog' = Append(backendLog, "getIdentity")
            /\ reqPayload' = Prop("lnd", LndClient)
            /\ UNCHANGED reqOutcome
    /\ UNCHANGED <<op, closeVars, payVars, backendError, openVars, nodeChannels,
                   handlerPc, runtimeSettings, callback, isValid, content, caught,
                   responses, handlerResult>>

\* authenticatedLndGrpc throws on credentials it cannot use: the constructor wraps
\* the error, initLightningProvider rethrows it, and the catch block of
\* lndProvider.get returns null without a backend call
StatusClientFail(m) ==
    /\ op = "status"
    /\ reqPc = "idle"
    /\ \E cert \in Settings, macaroon \in Settings, socket \in Settings,
          agentName \in AgentNames :
            reqArgs' = StatusRequestOf(cert, macaroon, socket, agentName)
    /\ ~CredentialsMissing(reqArgs')
    /\ reqPc' = "unconfigured"
    /\ reqOutcome' = Returned(Null)
    /\ UNCHANGED <<op, handlerVars, closeVars, payVars, backendError, backendLog, openVars,
                   nodeChannels, reqPayload>>

\* getIdentity answers: getLndChannel is awaited
StatusIdentityReturn ==
    /\ op = "status"
    /\ reqPc = "identity"
    /\ reqPc' = "channels"
    /\ backendLog' = Append(backendLog, "getChannels")
    /\ reqPayload' = getLndChannelArgs(EmptyObj)
    /\ UNCHANGED <<op, handlerVars, closeVars, payVars, backendError, openVars, nodeChannels,
                   reqArgs, reqOutcome>>

\* getChannels answers: the summary is returned
StatusChannelsReturn ==
    /\ op = "status"
    /\ reqPc = "channels"
    /\ reqPc' = "confirmed"
    /\ reqOutcome' = Returned(statusText(reqArgs, NodePublicKey, nodeChannels))
    /\ UNCHANGED <<op, handlerVars, closeVars, payVars, backendError, backendLog, openVars,
                   nodeChannels, reqArgs, reqPayload>>

\* either backend call rejects: the catch block logs the error and returns null
StatusFail(m) ==
    /\ op = "status"
    /\ reqPc \in {"identity", "channels"}
    /\ reqPc' = "failed"
    /\ backendError' = <<m>>
    /\ reqOutcome' = Returned(Null)
    /\ UNCHANGED <<op, handlerVars, closeVars, payVars, backendLog, openVars,
                   nodeChannels, reqArgs, reqPayload>>

NextStatus ==
    \/ StatusCall
    \/ \E m \in ClientMessages : StatusClientFail(m)
    \/ StatusIdentityReturn
    \/ StatusChannelsReturn
    \/ \E m \in BackendMessages : StatusFail(m)

InitStatus == Init /\ op = "status"

SpecStatus == InitStatus /\ [][NextStatus]_vars

(***************************************************************************)
(* The two operations that read the node's channel list.                    *)
(***************************************************************************)
NextListing == NextPay \/ NextChannels

InitListing == Init /\ op \in {"pay", "getChannels"}

SpecListing == InitListing /\ [][NextListing]_vars

(***************************************************************************)
(* Operations that await the backend, with the fairness the runtime gives:  *)
(* a caller's invocation is carried out and runs up to its await; whether   *)
(* the backend ever answers is up to the backend.  The provider passes no   *)
(* timeout to a backend call and arms no timer of its own, so no step of    *)
(* the plugin ends a pending await.                                         *)
(***************************************************************************)
NextAwait == NextPay \/ NextQuery

InitAwait == Init /\ op \in {"pay"} \cup QueryOps

SpecAwait ==
    InitAwait /\ [][NextAwait]_vars /\ WF_vars(PayInvoiceCall) /\ WF_vars(QueryCall)

(***************************************************************************)
(* payInvoiceAction: validate and the PAY_INVOICE handler                   *)
(***************************************************************************)
\* a value that is an object
Obj(o) == <<"object", o>>

\* `${v}` in a template literal
Interpolate(v) ==
    CASE v[1] = "undefined" -> "undefined"
      [] v[1] = "string" -> v[2]
      [] v[1] = "number" -> ToString(v[2])
      [] v[1] = "boolean" -> IF v[2] THEN "true" ELSE "false"
      [] v[1] = "null" -> "null"

\* the mutated validate: the socket is not looked at
validateNoSocket(s) ==
    /\ Truthy(Get(s, "LND_TLS_CERT"))
    /\ Truthy(Get(s, "LND_MACAROON"))

\* const isValid = !!cert && !!macaroon && !!socket
validate(s) ==
    /\ Truthy(Get(s, "LND_TLS_CERT"))
    /\ Truthy(Get(s, "LND_MACAROON"))
    /\ Truthy(Get(s, "LND_SOCKET"))

\* what generateObject may give the handler: an object of payInvoiceSchema
GeneratedContents == {Prop("request", PayRequest)}

\* { text: `Successfully paid invoice ...`, content: { success: true } }
successResponse(payInvoiceContent, payInvoiceResp) ==
    Spread(Prop("text", Str(<<"Successfully paid invoice ",
                              Interpolate(Get(payInvoiceContent, "request")),
                              " from ", Interpolate(Get(payInvoiceResp, "outgoing_channel")),
                              ";\nAmount: ", Interpolate(Get(payInvoiceResp, "tokens")),
                              ";\nFee: ", Interpolate(Get(payInvoiceResp, "fee")),
                              ";\nPayment Hash: ", Interpolate(Get(payInvoiceResp, "id")),
                              ";">>)),
           Prop("content", Obj(Prop("success", Bool(TRUE)))))

\* { text: `Failed to payInvoice ...`, content: { success: false } }
failureResponse(payInvoiceContent, payInvoiceResp) ==
    Spread(Prop("text", Str(<<"Failed to payInvoice ",
                              Interpolate(Get(payInvoiceContent, "request")),
                              " from ", Interpolate(Get(payInvoiceContent, "outgoing_channel")),
                              ";\r\n Amount: ", Interpolate(Get(payInvoiceResp, "tokens")),
                              ";">>)),
           Prop("content", Obj(Prop("success", Bool(FALSE)))))

\* { text: `Error: ${error.message || "An error occurred"}` }
errorResponse(message) ==
    Prop("text", Str(Wrap("Error: ",
                          IF message = <<>> THEN <<"An error occurred">> ELSE message)))

\* the mutated choice of the response: every payment is reported as a success
payResponseSuccess(payInvoiceContent, payInvoiceResp) ==
    successResponse(payInvoiceContent, payInvoiceResp)

\* if (payInvoiceResp.is_confirmed) { ... } else { ... }
payResponse(payInvoiceContent, payInvoiceResp) ==
    IF Truthy(Get(payInvoiceResp, "is_confirmed"))
    THEN successResponse(payInvoiceContent, payInvoiceResp)
    ELSE failureResponse(payInvoiceContent, payInvoiceResp)

\* the mutated catch block: the error is swallowed without a word to the callback
HandlerCatchQuiet(message) ==
    /\ handlerPc' = "done"
    /\ caught' = <<message>>
    /\ handlerResult' = Returned(Bool(FALSE))
    /\ UNCHANGED responses

\* catch (error) { if (callback) callback(errorResponse); return false }
HandlerCatch(message) ==
    /\ handlerPc' = "done"
    /\ caught' = <<message>>
    /\ responses' = IF callback THEN Append(responses, errorResponse(message)) ELSE responses
    /\ handlerResult' = Returned(Bool(FALSE))

\* the runtime asks validate(runtime) whether the action applies
HandlerValidate ==
    /\ op = "handler"
    /\ handlerPc = "idle"
    /\ handlerPc' = "validated"
    /\ \E cert \in Settings, macaroon \in Settings, socket \in Settings :
         runtimeSettings' =
            StripUndefined(
                Spread(Spread(Prop("LND_TLS_CERT", cert), Prop("LND_MACAROON", macaroon)),
                       Prop("LND_SOCKET", socket)))
    /\ \E supplied \in BOOLEAN : callback' = supplied
    /\ isValid' = Bool(validate(runtimeSettings'))
    /\ UNCHANGED <<op, closeVars, payVars, backendError, backendLog, openVars, reqVars,
                   lndClients, content, caught, responses, handlerResult>>

\* the handler is invoked with the same settings: initLightningProvider constructs
\* the provider, whose constructor checks the credentials and creates the client;
\* then generateObject is awaited
HandlerCall ==
    /\ op = "handler"
    /\ handlerPc = "validated"
    /\ IF CredentialsMissing(runtimeSettings)
       THEN /\ HandlerCatch(<<"Missing required LND credentials">>)
            /\ UNCHANGED lndClients
       ELSE /\ handlerPc' = "extracting"
            /\ lndClients' = lndClients + 1
            /\ UNCHANGED <<caught, responses, handlerResult>>
    /\ UNCHANGED <<op, closeVars, payVars, backendError, backendLog, openVars, reqVars,
                   runtimeSettings, callback, isValid, content>>

\* authenticatedLndGrpc throws on credentials it cannot use: the constructor wraps
\* the error and no client is kept
HandlerClientFail(m) ==
    /\ op = "handler"
    /\ handlerPc = "validated"
    /\ ~CredentialsMissing(runtimeSettings)
    /\ HandlerCatch(Wrap("Failed to initialize LND client: ", <<m>>))
    /\ UNCHANGED <<op, closeVars, payVars, backendError, backendLog, openVars, reqVars,
                   runtimeSettings, callback, isValid, lndClients, content>>

\* generateObject resolves: action.payInvoice({ request }) is awaited, which starts
\* with the listing of the channels
HandlerContentReturn ==
    /\ op = "handler"
    /\ handlerPc = "extracting"
    /\ handlerPc' = "paying"
    /\ \E c \in GeneratedContents :
         /\ content' = Returned(c)
         /\ payParams' = Prop("request", Get(c, "request"))
    /\ payPc' = "listing"
    /\ listCalls' = listCalls + 1
    /\ UNCHANGED <<op, closeVars, backendError, backendLog, openVars, reqVars,
                   backendChannels, changes, listAnswer, snapshot, selected,
                   payPayload, payCalls, payAnswer, payOutcome,
                   runtimeSettings, callback, isValid, lndClients, caught, responses,
                   handlerResult>>

\* generateObject rejects: the catch block answers
HandlerContentFail(m) ==
    /\ op = "handler"
    /\ handlerPc = "extracting"
    /\ content' = Thrown(<<m>>)
    /\ HandlerCatch(<<m>>)
    /\ UNCHANGED <<op, closeVars, payVars, backendError, backendLog, openVars, reqVars,
                   runtimeSettings, callback, isValid, lndClients>>

\* action.payInvoice resolves: the callback gets the response, the handler returns true
HandlerPayReturn ==
    /\ op = "handler"
    /\ handlerPc = "paying"
    /\ payPc = "returned"
    /\ handlerPc' = "done"
    /\ responses' = IF callback
                    THEN Append(responses, payResponse(content.value, payOutcome.value))
                    ELSE responses
    /\ handlerResult' = Returned(Bool(TRUE))
    /\ UNCHANGED <<op, closeVars, payVars, backendError, backendLog, openVars, reqVars,
                   runtimeSettings, callback, isValid, lndClients, content, caught>>

\* action.payInvoice rejects: the catch block answers
HandlerPayRaise ==
    /\ op = "handler"
    /\ handlerPc = "paying"
    /\ payPc = "raised"
    /\ HandlerCatch(payOutcome.message)
    /\ UNCHANGED <<op, closeVars, payVars, backendError, backendLog, openVars, reqVars,
                   runtimeSettings, callback, isValid, lndClients, content>>

NextHandler ==
    \/ HandlerValidate
    \/ HandlerCall
    \/ \E m \in ClientMessages : HandlerClientFail(m)
    \/ HandlerContentReturn
    \/ \E m \in {"model unavailable"} : HandlerContentFail(m)
    \/ BackendChannelChange
    \/ GetChannelsReturn
    \/ \E m \in BackendMessages : GetChannelsFail(m)
    \/ PayReturn
    \/ \E m \in BackendMessages : PayFail(m)
    \/ HandlerPayReturn
    \/ HandlerPayRaise

InitHandler == Init /\ op = "handler"

SpecHandler == InitHandler /\ [][NextHandler]_vars

Next ==
    \/ NextClose
    \/ NextPay
    \/ NextOpen
    \/ NextInvoice
    \/ NextAddress
    \/ NextChannels
    \/ NextQuery
    \/ NextStatus
    \/ NextHandler

Spec == Init /\ [][Next]_vars

(***************************************************************************)
(* What a request says, read independently of the code's truthiness tests.  *)
(***************************************************************************)
IsString(v) == v[1] = "string" /\ v[2] # ""
IsNumber(v) == v[1] = "number"
HasChannelId(args) == IsString(Get(args, "id"))
HasCompletePair(args) ==
    IsString(Get(args, "transaction_id")) /\ IsNumber(Get(args, "transaction_vout"))

CloseRan == closePc \in {"rejected", "submitted", "confirmed", "failed"}
CloseCalled == closePc \in {"submitted", "confirmed", "failed"}

ForceCloseKeys ==
    {"id", "transaction_id", "transaction_vout", "is_force_close",
     "max_tokens_per_vbyte", "tokens_per_vbyte", "target_confirmations"}

\* C1: a close request with neither a channel id nor a complete
\* (transaction_id, transaction_vout) pair fails with an error, and the
\* backend closeChannel call is never made.
C1_CloseWithoutIdentifierFails ==
    (closePc # "idle" /\ ~HasChannelId(closeArgs) /\ ~HasCompletePair(closeArgs)) =>
        /\ closeCalls = 0
        /\ closePc \in {"requested", "rejected"}
        /\ closePc = "rejected" => closeOutcome.kind = "error"

\* a request with a transaction id but no output index was rejected
C1_Witness ==
    /\ closePc = "rejected"
    /\ closeOutcome.kind = "error"
    /\ closeCalls = 0
    /\ closeArgs["id"] = Undefined
    /\ closeArgs["transaction_id"] = Str("tx1")
    /\ closeArgs["transaction_vout"] = Undefined

\* C2: with is_force_close set, the payload of the backend closeChannel call
\* holds only the channel identifier, is_force_close and the fee-control
\* fields, each identifier and fee field with the caller's value; never
\* address, public_key, socket or is_graceful_close.  (lnd, the client handle
\* the library takes in the same object, is no field of the request.)
C2_ForceClosePayloadFields ==
    (CloseCalled /\ Truthy(Get(closeArgs, "is_force_close"))) =>
        /\ DOMAIN closePayload \subseteq ForceCloseKeys \cup {"lnd"}
        /\ Get(closePayload, "is_force_close") = Bool(TRUE)
        /\ {"id", "transaction_id"} \cap DOMAIN closePayload # {}
        /\ \A k \in (DOMAIN closePayload) \ {"lnd", "is_force_close"} :
              closePayload[k] = closeArgs[k]
        /\ {"address", "public_key", "socket", "is_graceful_close"}
              \cap DOMAIN closePayload = {}

\* a force close that carried every cooperative-only field reached the backend
C2_Witness ==
    /\ CloseCalled
    /\ closeArgs["is_force_close"] = Bool(TRUE)
    /\ closeArgs["address"] # Undefined
    /\ closeArgs["public_key"] # Undefined
    /\ closeArgs["socket"] # Undefined
    /\ closeArgs["is_graceful_close"] = Bool(TRUE)
    /\ closePayload["is_force_close"] = Bool(TRUE)

\* C3: a request that names the channel by transaction_id "tx1" and
\* transaction_vout 0, without a channel id, reaches the backend with both in
\* the payload (and, when it is a force close, is_force_close true and no
\* address): output index 0 is a complete identifier.
C3_ZeroVoutReachesBackend ==
    (/\ CloseRan
     /\ ~HasChannelId(closeArgs)
     /\ Get(closeArgs, "transaction_id") = Str("tx1")
     /\ Get(closeArgs, "transaction_vout") = Num(0)) =>
        /\ closeCalls = 1
        /\ Get(closePayload, "transaction_id") = Str("tx1")
        /\ Get(closePayload, "transaction_vout") = Num(0)
        /\ Truthy(Get(closeArgs, "is_force_close")) =>
             /\ Get(closePayload, "is_force_close") = Bool(TRUE)
             /\ "address" \notin DOMAIN closePayload

(***************************************************************************)
(* Channel lists, read independently of getAvalibleChannelId.               *)
(***************************************************************************)
ActiveIn(channels) == {i \in 1..Len(channels) : channels[i].is_active}
BestIn(channels) ==
    {i \in ActiveIn(channels) :
        \A j \in ActiveIn(channels) : channels[i].local_balance >= channels[j].local_balance}
IdRank(id) == CASE id = "A" -> 1 [] id = "B" -> 2 [] id = "C" -> 3
Reordered(channels, p) == [i \in 1..Len(channels) |-> channels[p[i]]]

\* C4: when the channel list the backend returned holds no active channel
\* (the empty list included), payInvoice fails with the no-available-channel
\* error and the backend pay call is never made.
C4_NoActiveChannelNoPay ==
    (listAnswer = "ok" /\ ActiveIn(snapshot) = {}) =>
        /\ payCalls = 0
        /\ payPc = "raised"
        /\ payOutcome = Thrown(<<"no avalible channel">>)

\* payInvoice failed on a list of several channels, all inactive
C4_Witness ==
    /\ listAnswer = "ok"
    /\ Len(snapshot) >= 2
    /\ ActiveIn(snapshot) = {}
    /\ payPc = "raised"
    /\ payCalls = 0

\* C5: for a channel list with an active channel, the selected id is that of
\* an active channel whose local_balance is at least that of every other
\* active channel; an inactive channel is never selected.
C5_SelectsActiveWithMaxBalance ==
    (listAnswer = "ok" /\ ActiveIn(snapshot) # {}) =>
        \E i \in BestIn(snapshot) : snapshot[i].id = selected

\* A active with the least balance, B active with more, C inactive with the
\* most: B was selected
C5_Witness ==
    /\ listAnswer = "ok"
    /\ snapshot = << [id |-> "A", is_active |-> TRUE, local_balance |-> 0],
                     [id |-> "B", is_active |-> TRUE, local_balance |-> 1],
                     [id |-> "C", is_active |-> FALSE, local_balance |-> 2] >>
    /\ selected = "B"
    /\ payCalls = 1

\* C6: selection does not depend on the order of the list, and among the
\* active channels of greatest local_balance the lowest id is selected.
C6_SelectionIgnoresOrder ==
    (listAnswer = "ok" /\ ActiveIn(snapshot) # {}) =>
        /\ \A p \in Permutations(1..Len(snapshot)) :
              getAvalibleChannelId(Reordered(snapshot, p)) = selected
        /\ \A i \in BestIn(snapshot) : IdRank(selected) <= IdRank(snapshot[i].id)

\* C7: in one invocation of payInvoice the backend pay call is made at most
\* once and the channels are listed at most once, whatever the backend
\* answers; once the backend answered pay, the invocation is over.
C7_PayCalledAtMostOnce ==
    /\ payCalls <= 1
    /\ listCalls <= 1
    /\ payAnswer.kind # "pending" => payPc \in {"returned", "raised"} /\ payCalls = 1

\* the backend failed the payment and it was not submitted again
C7_Witness ==
    /\ payPc = "raised"
    /\ payAnswer.kind = "error"
    /\ payCalls = 1
    /\ listCalls = 1

PayConfirmed == payAnswer.kind = "ok" /\ Get(payAnswer.value, "is_confirmed") = Bool(TRUE)

\* C8 as claimed: after a submission, every backend outcome other than
\* is_confirmed == true (a backend failure included) gives a receipt whose
\* confirmed flag is not set, and payInvoice does not raise.
C8_UnconfirmedNeverRaises ==
    (payCalls = 1 /\ payAnswer.kind # "pending" /\ ~PayConfirmed) =>
        /\ payOutcome.kind = "ok"
        /\ ~Truthy(Get(payOutcome.value, "is_confirmed"))

\* C8 as amended: after a submission, a backend response without
\* is_confirmed == true gives, without raising, a receipt that carries the
\* backend's is_confirmed unchanged (false or missing, never true); a backend
\* error makes payInvoice raise "Failed to pay invoice: " with the backend's
\* message, and no receipt is returned.
C8_UnconfirmedReceiptOrRaise ==
    (payCalls = 1 /\ payAnswer.kind # "pending" /\ ~PayConfirmed) =>
        /\ payAnswer.kind = "ok" =>
             /\ payOutcome.kind = "ok"
             /\ Get(payOutcome.value, "is_confirmed") = Get(payAnswer.value, "is_confirmed")
             /\ Get(payOutcome.value, "is_confirmed") # Bool(TRUE)
             /\ ("is_confirmed" \in DOMAIN payOutcome.value)
                    = ("is_confirmed" \in DOMAIN payAnswer.value)
        /\ payAnswer.kind = "error" =>
             /\ payOutcome = Thrown(Wrap("Failed to pay invoice: ", payAnswer.message))
             /\ payPc = "raised"

\* the backend answered without is_confirmed and a receipt was returned
C8_Witness ==
    /\ payPc = "returned"
    /\ payAnswer.kind = "ok"
    /\ "is_confirmed" \notin DOMAIN payAnswer.value
    /\ payOutcome.kind = "ok"

\* C9: the outgoing_channel sent to the backend pay call is the selected
\* channel, also when the caller supplied one of its own, and the receipt
\* reports the outgoing_channel that was sent.
C9_SelectedChannelIsSent ==
    payCalls = 1 =>
        /\ Get(payPayload, "outgoing_channel") = Str(selected)
        /\ payOutcome.kind = "ok" =>
             Get(payOutcome.value, "outgoing_channel") = Get(payPayload, "outgoing_channel")

\* C10: when the selected channel changed at the backend between the listing
\* and the pay call, payInvoice has submitted once, with the channel selected
\* from the earlier listing, and a failure the backend reports reaches the
\* caller.
C10_RaceSubmitsSelectedOnce ==
    (changes > 0 /\ payAnswer.kind # "pending") =>
        /\ payCalls = 1
        /\ listCalls = 1
        /\ selected = getAvalibleChannelId(snapshot)
        /\ Get(payPayload, "outgoing_channel") = Str(selected)
        /\ payAnswer.kind = "error" =>
             payOutcome = Thrown(Wrap("Failed to pay invoice: ", payAnswer.message))

(***************************************************************************)
(* Open requests, read independently of the code's truthiness tests.        *)
(***************************************************************************)
PositiveTokens(args) ==
    IsNumber(Get(args, "local_tokens")) /\ Get(args, "local_tokens")[2] > 0
ValidOpenRequest(args) == PositiveTokens(args) /\ IsString(Get(args, "partner_public_key"))
OpenRan == openPc \notin {"idle", "requested"}
FirstNonChange(addresses) ==
    {i \in 1..Len(addresses) :
        ~addresses[i].is_change /\ \A j \in 1..(i - 1) : addresses[j].is_change}

\* C11: an open request whose local_tokens is not greater than 0 (missing,
\* zero or negative) or whose partner_public_key is empty fails with an error
\* before any backend call: neither getChainAddresses nor openChannel is called.
C11_InvalidOpenRejectedBeforeBackend ==
    (openPc # "idle" /\ ~ValidOpenRequest(openArgs0)) =>
        /\ backendLog = <<>>
        /\ openPc \in {"requested", "rejected"}
        /\ openPc = "rejected" => openOutcome.kind = "error"

\* C12: for a valid open request without cooperative_close_address, the chain
\* addresses are listed before the backend openChannel is called; the payload
\* carries the first non-change address of the list when there is one, and
\* openChannel is still called, without an address, when there is none.
C12_CloseAddressFallback ==
    (OpenRan /\ ValidOpenRequest(openArgs0)
        /\ ~IsString(Get(openArgs0, "cooperative_close_address"))) =>
        /\ openPc # "rejected"
        /\ backendLog \in {<<"getChainAddresses">>, <<"getChainAddresses", "openChannel">>}
        /\ openPc = "listing" => backendLog = <<"getChainAddresses">>
        /\ openPc \in {"submitted", "confirmed"} => Len(backendLog) = 2
        /\ Len(backendLog) = 2 =>
             IF FirstNonChange(chainAddresses) # {}
             THEN \E i \in FirstNonChange(chainAddresses) :
                     Get(openPayload, "cooperative_close_address")
                         = Str(chainAddresses[i].address)
             ELSE /\ ~IsString(Get(openPayload, "cooperative_close_address"))
                  /\ ("cooperative_close_address" \in DOMAIN openPayload)
                        = ("cooperative_close_address" \in DOMAIN openArgs0)

\* the node had a change address first and a receiving address second: the
\* second was sent as cooperative_close_address
C12_Witness ==
    /\ openPc = "submitted"
    /\ "cooperative_close_address" \notin DOMAIN openArgs0
    /\ Len(chainAddresses) = 2
    /\ chainAddresses[1].is_change
    /\ ~chainAddresses[2].is_change
    /\ openPayload["cooperative_close_address"] = Str(chainAddresses[2].address)
    /\ backendLog = <<"getChainAddresses", "openChannel">>

CoopOptionalKeys ==
    {"address", "is_graceful_close", "max_tokens_per_vbyte", "tokens_per_vbyte",
     "target_confirmations", "public_key", "socket"}
CoopFeeKeys == {"max_tokens_per_vbyte", "tokens_per_vbyte", "target_confirmations"}
CoopCalled == CloseCalled /\ ~Truthy(Get(closeArgs, "is_force_close"))

\* C16: in every cooperative close that reaches the backend, each optional
\* field the caller omitted is absent as a key from the payload, and no key of
\* the payload holds an undefined value.
C16_OmittedCoopFieldsAbsent ==
    CoopCalled =>
        /\ \A k \in CoopOptionalKeys :
              Get(closeArgs, k) = Undefined => k \notin DOMAIN closePayload
        /\ \A k \in DOMAIN closePayload : closePayload[k] # Undefined

\* a cooperative close by id with every optional field omitted was sent
C16_Witness ==
    /\ closePc = "submitted"
    /\ Get(closeArgs, "is_force_close") = Undefined
    /\ \A k \in CoopOptionalKeys : Get(closeArgs, k) = Undefined
    /\ DOMAIN closePayload = {"lnd", "id", "is_force_close"}

\* C17: in a cooperative close, an optional field supplied explicitly as false
\* (is_graceful_close) or as zero (a fee-control field) appears in the backend
\* payload with that value.
C17_ExplicitFalseZeroKept ==
    CoopCalled =>
        /\ Get(closeArgs, "is_graceful_close") = Bool(FALSE) =>
              Get(closePayload, "is_graceful_close") = Bool(FALSE)
        /\ \A k \in CoopFeeKeys :
              Get(closeArgs, k) = Num(0) => Get(closePayload, k) = Num(0)

\* the text a template literal makes of a value
Text(v) == IF IsNumber(v) THEN ToString(v[2]) ELSE v[2]
Mentions(message, texts) == \E i \in 1..Len(message) : message[i] \in texts
CloseIdentifierTexts(args) ==
    {Text(Get(args, k)) : k \in {k \in {"id", "transaction_id"} : IsString(Get(args, k))}}
CloseModeTexts == {"force", "cooperative", "true", "false"}

\* C18: whenever the backend closeChannel call fails, the error given to the
\* caller carries the channel identifier of the request and the attempted
\* close mode, in addition to the backend's message.
C18_CloseErrorCarriesIdAndMode ==
    closePc = "failed" =>
        /\ closeOutcome.kind = "error"
        /\ Mentions(closeOutcome.message, {backendError[1]})
        /\ Mentions(closeOutcome.message, CloseIdentifierTexts(closeArgs))
        /\ Mentions(closeOutcome.message, CloseModeTexts)

PositiveMtokens == {Str("1000")}
AmountPositive(args) ==
    \/ (IsNumber(Get(args, "tokens")) /\ Get(args, "tokens")[2] > 0)
    \/ Get(args, "mtokens") \in PositiveMtokens
InvoiceRan == op = "createInvoice" /\ reqPc \notin {"idle", "requested"}

\* C13: CreateInvoiceAction.createInvoice accepts a request exactly when its
\* amount is present and positive, as tokens or as mtokens; every other
\* request, the empty one included, fails before the backend createInvoice
\* call is made.
C13_InvoiceAcceptedIffAmountPositive ==
    InvoiceRan =>
        /\ AmountPositive(reqArgs) <=> reqPc # "rejected"
        /\ reqPc = "rejected" => backendLog = <<>> /\ reqOutcome.kind = "error"

RecognisedFormats == {Str("p2wpkh"), Str("np2wpkh"), Str("p2tr")}
AddressRan == op = "createChainAddress" /\ reqPc \notin {"idle", "requested"}
AddressRejected ==
    reqPc = "rejected" /\ backendLog = <<>> /\ reqOutcome.kind = "error"
AddressCalledWith(format) ==
    /\ reqPc \in {"submitted", "confirmed", "failed"}
    /\ backendLog = <<"createChainAddress">>
    /\ Get(reqPayload, "format") = format

\* C14 as stated: a supplied format outside {p2wpkh, np2wpkh, p2tr} fails with
\* an error and no backend call; with no format the backend is called with
\* p2wpkh; with a recognised format the backend is called with that format.
C14_SuppliedUnknownFormatFails ==
    AddressRan =>
        /\ ("format" \in DOMAIN reqArgs /\ reqArgs["format"] \notin RecognisedFormats)
              => AddressRejected
        /\ "format" \notin DOMAIN reqArgs => AddressCalledWith(Str("p2wpkh"))
        /\ Get(reqArgs, "format") \in RecognisedFormats
              => AddressCalledWith(reqArgs["format"])

Supplied(args, k) == k \in DOMAIN args
\* the code units of white space and of line ends
BlankCharacters ==
    {9, 10, 11, 12, 13, 32, 160, 5760, 8232, 8233, 8239, 8287, 12288, 65279}
        \cup (8192..8202)
Blank(key) == \A i \in 1..Len(key[2]) : key[2][i] \in BlankCharacters
ChannelsReturned == op = "getChannels" /\ reqPc = "confirmed"

\* the predicates of the filters, each read on its own
ActiveHolds(c, args) == Supplied(args, "is_active") => c.is_active = args["is_active"][2]
OfflineHolds(c, args) == Supplied(args, "is_offline") => (~c.is_active) = args["is_offline"][2]
PrivacyHolds(c, args) ==
    IF Supplied(args, "is_private") THEN c.is_private = args["is_private"][2]
    ELSE Supplied(args, "is_public") => (~c.is_private) = args["is_public"][2]
PartnerHolds(c, args) ==
    Supplied(args, "partner_public_key") =>
        c.partner_public_key = args["partner_public_key"]

\* C15 as stated: getChannels returns exactly the listed channels that satisfy the
\* conjunction of the supplied filters, where is_offline means not is_active,
\* is_public means not is_private, is_private wins over is_public, and an
\* unset filter excludes no channel.
C15_ReturnsConjunctionOfFilters ==
    ChannelsReturned =>
        reqOutcome.value["channels"] =
            SelectSeq(snapshot,
                LAMBDA c : /\ ActiveHolds(c, reqArgs)
                           /\ OfflineHolds(c, reqArgs)
                           /\ PrivacyHolds(c, reqArgs)
                           /\ PartnerHolds(c, reqArgs))

\* C15, amended: as stated, but is_active wins when both is_active and
\* is_offline are supplied, and a partner_public_key that is empty or only
\* whitespace excludes no channel.
C15_ReturnsFiltersWithPrecedence ==
    ChannelsReturned =>
        reqOutcome.value["channels"] =
            SelectSeq(snapshot,
                LAMBDA c : /\ IF Supplied(reqArgs, "is_active")
                              THEN ActiveHolds(c, reqArgs) ELSE OfflineHolds(c, reqArgs)
                           /\ PrivacyHolds(c, reqArgs)
                           /\ (Supplied(reqArgs, "partner_public_key")
                                  /\ ~Blank(reqArgs["partner_public_key"]))
                                 => PartnerHolds(c, reqArgs))

\* is_active and is_offline were both supplied as true, and the node's active
\* channel was returned
C15_Witness ==
    /\ ChannelsReturned
    /\ Get(reqArgs, "is_active") = Bool(TRUE)
    /\ Get(reqArgs, "is_offline") = Bool(TRUE)
    /\ Len(snapshot) = 1
    /\ snapshot[1].is_active
    /\ reqOutcome.value["channels"] = snapshot

\* what the operation of this run gave its caller
Outcome ==
    CASE op = "close" -> closeOutcome
      [] op = "pay" -> payOutcome
      [] op = "open" -> openOutcome
      [] op = "handler" -> handlerResult
      [] OTHER -> reqOutcome
ProviderOperations == Operations \ {"status", "handler"}
BackendFailed == backendError # <<>>

\* C19: for each LightningProvider operation (open, close, pay, create
\* invoice, list channels, chain addresses, create address, chain balance,
\* identity), when a backend call fails with a message m, the operation fails
\* towards its caller with an error whose message contains m.
C19_BackendMessagePreserved ==
    (op \in ProviderOperations /\ BackendFailed) =>
        /\ Outcome.kind = "error"
        /\ Mentions(Outcome.message, {backendError[1]})

\* listing the chain addresses failed inside openChannel: the caller's error
\* holds both prefixes and the backend's message
C19_Witness ==
    /\ op = "open"
    /\ openPc = "failed"
    /\ BackendFailed
    /\ openOutcome.message =
          <<"Failed to open channel: ", "Failed to get chain addresses: ">> \o backendError

\* C20: no caller-facing operation swallows a backend error: whenever a
\* backend call made for an operation fails, the operation's caller receives
\* an error, not an empty or null success value; this includes the status
\* summary lndProvider.get.
C20_NoBackendErrorSwallowed ==
    BackendFailed => Outcome.kind = "error"

(***************************************************************************)
(* The workflow of open and close operations.                               *)
(***************************************************************************)
WorkflowState(pc) ==
    CASE pc = "idle" -> "Idle"
      [] pc \in {"requested", "listing"} -> "Requested"
      [] pc = "submitted" -> "Submitted"
      [] pc = "rejected" -> "Rejected"
      [] pc = "confirmed" -> "Confirmed"
      [] pc = "failed" -> "Failed"
TerminalStates == {"Rejected", "Confirmed", "Failed"}
WorkflowSteps ==
    {<<"Idle", "Requested">>, <<"Requested", "Requested">>, <<"Requested", "Submitted">>,
     <<"Requested", "Rejected">>, <<"Submitted", "Confirmed">>, <<"Submitted", "Failed">>}
\* number of backend openChannel calls made
OpenCalls == Cardinality({i \in 1..Len(backendLog) : backendLog[i] = "openChannel"})
ListingFailed ==
    openOutcome.kind = "error" /\ Len(openOutcome.message) = 3
        /\ openOutcome.message[2] = "Failed to get chain addresses: "

CallsMatchState(state, calls) ==
    /\ state = "Rejected" => calls = 0
    /\ state \in {"Confirmed", "Failed"} => calls = 1
CloseStep ==
    closePc' # closePc =>
        <<WorkflowState(closePc), WorkflowState(closePc')>> \in WorkflowSteps
OpenStep ==
    (openPc' # openPc /\ openPrev' = openPrev) =>
        <<WorkflowState(openPc), WorkflowState(openPc')>> \in WorkflowSteps

\* C22 as stated: every open and every close follows Requested -> Submitted ->
\* Confirmed, Requested -> Rejected or Requested -> Submitted -> Failed;
\* Rejected is reached only with no backend open/close call made, Failed and
\* Confirmed only after exactly one; no transition leaves a terminal state.
C22_WorkflowOfOpenAndClose ==
    /\ [](CallsMatchState(WorkflowState(closePc), closeCalls)
            /\ CallsMatchState(WorkflowState(openPc), OpenCalls))
    /\ [][CloseStep /\ OpenStep]_vars

\* C22, amended: as stated, except that an open whose chain-address listing
\* fails goes from Requested to Failed without being submitted, with no
\* backend openChannel call made.
C22_WorkflowWithListingFailure ==
    /\ [](/\ CallsMatchState(WorkflowState(closePc), closeCalls)
          /\ WorkflowState(openPc) \in {"Rejected", "Confirmed"}
                => CallsMatchState(WorkflowState(openPc), OpenCalls)
          /\ WorkflowState(openPc) = "Failed"
                => OpenCalls = (IF ListingFailed THEN 0 ELSE 1))
    /\ [][/\ CloseStep
          /\ OpenStep \/ (openPc = "listing" /\ openPrev' = openPrev /\ openPc' = "failed" /\ ListingFailed'
                            /\ OpenCalls' = 0)]_vars

\* an open failed while the chain addresses were listed: no openChannel call
C22_Witness ==
    /\ openPc = "failed"
    /\ ListingFailed
    /\ backendLog = <<"getChainAddresses">>

NoCloseAddress(args) == ~IsString(Get(args, "cooperative_close_address"))
\* the call that failed is the last one the log holds
ListingCallFailed ==
    /\ BackendFailed
    /\ backendLog # <<>>
    /\ backendLog[Len(backendLog)] = "getChainAddresses"

\* C26: for a valid open request without cooperative_close_address, if the
\* chain-address listing fails, openChannel fails with an error carrying that
\* failure and the backend openChannel call is never made.
C26_ListingFailureStopsOpen ==
    /\ [](op = "open" /\ ValidOpenRequest(openArgs0) /\ NoCloseAddress(openArgs0)
            /\ BackendFailed
          => /\ openPc = "failed"
             /\ openOutcome.kind = "error"
             /\ Mentions(openOutcome.message, {backendError[1]})
             /\ (backendLog = <<"getChainAddresses">>
                   => Mentions(openOutcome.message, {"Failed to get chain addresses: "})))
    /\ [][(op = "open" /\ ListingCallFailed) => backendLog' # Append(backendLog, "openChannel")]_vars

\* the listing failed for a valid request without address: the open failed
\* and only getChainAddresses was called
C26_Witness ==
    /\ op = "open"
    /\ openPc = "failed"
    /\ ValidOpenRequest(openArgs0)
    /\ "cooperative_close_address" \notin DOMAIN openArgs0
    /\ backendError = <<"400 rejected">>
    /\ backendLog = <<"getChainAddresses">>
    /\ openPrev = <<>>

\* the one change openChannel may make to the request object
AddressWritten(before, after) ==
    /\ NoCloseAddress(before)
    /\ FirstNonChange(chainAddresses) # {}
    /\ \E i \in FirstNonChange(chainAddresses) :
          after = Spread(before, Prop("cooperative_close_address",
                                      Str(chainAddresses[i].address)))
OpenEnded == openPc \in {"rejected", "confirmed", "failed"}

\* C27: openChannel changes the caller's request object in one case and one
\* field only: when the request had no cooperative_close_address and the
\* listing holds a non-change address, cooperative_close_address is set to
\* that address, and a second openChannel call with the same object lists no
\* addresses and sends the address the first call chose; in every other case
\* the request object is left unchanged.
C27_RequestChangedOnlyByFallback ==
    /\ (op = "open" /\ openArgs # openArgs0) =>
          /\ AddressWritten(openArgs0, openArgs)
          /\ openPc \in {"submitted", "confirmed", "failed"}
    /\ (op = "open" /\ openPc \in {"submitted", "confirmed"} /\ NoCloseAddress(openArgs0)
          /\ FirstNonChange(chainAddresses) # {}) => AddressWritten(openArgs0, openArgs)
    /\ (op = "open" /\ openPrev # <<>> /\ openPrev[1].after # openPrev[1].request) =>
          /\ openArgs0 = openPrev[1].after
          /\ openArgs = openArgs0
          /\ \A i \in 1..Len(backendLog) : backendLog[i] # "getChainAddresses"
          /\ openPc \in {"submitted", "confirmed", "failed"} =>
                Get(openPayload, "cooperative_close_address")
                    = openPrev[1].after["cooperative_close_address"]

\* the first call wrote the address into the object; the second call was
\* submitted with it, without listing the addresses again
C27_Witness ==
    /\ op = "open"
    /\ openPrev # <<>>
    /\ "cooperative_close_address" \notin DOMAIN openPrev[1].request
    /\ "cooperative_close_address" \in DOMAIN openPrev[1].after
    /\ openPc = "submitted"
    /\ backendLog = <<"openChannel">>
    /\ openPayload["cooperative_close_address"] = openArgs0["cooperative_close_address"]

IdentifierKeys == {"id", "transaction_id", "transaction_vout"}
ForwardedIdentifiers == {k \in IdentifierKeys : k \in DOMAIN closePayload}
HasPartialPair(args) ==
    /\ ~HasCompletePair(args)
    /\ Get(args, "transaction_id") # Undefined \/ Get(args, "transaction_vout") # Undefined

\* C28: a close request with a channel id and a complete (transaction_id,
\* transaction_vout) pair is accepted and all three identifier fields are
\* forwarded to the backend; a request with an id and an incomplete pair is
\* accepted and forwards the id alone.
C28_IdentifiersForwarded ==
    (CloseRan /\ HasChannelId(closeArgs)) =>
        /\ CloseCalled
        /\ HasCompletePair(closeArgs) =>
              /\ ForwardedIdentifiers = IdentifierKeys
              /\ \A k \in IdentifierKeys : closePayload[k] = closeArgs[k]
        /\ HasPartialPair(closeArgs) =>
              /\ ForwardedIdentifiers = {"id"}
              /\ closePayload["id"] = closeArgs["id"]

\* the activity filter as is_active alone decides it
EffectiveActive(c, args) ==
    IF Supplied(args, "is_active") THEN c.is_active = args["is_active"][2]
    ELSE Supplied(args, "is_offline") => c.is_active = ~args["is_offline"][2]
OnlyActivityFilters(args) == DOMAIN args \subseteq {"is_active", "is_offline"}
ReturnedChannels == reqOutcome.value["channels"]

\* C29: in getChannels, when both is_active and is_offline are supplied,
\* is_offline is ignored and is_active alone decides; is_offline is applied,
\* as is_active == not is_offline, only when is_active is unset.
C29_ActiveOverridesOffline ==
    ChannelsReturned =>
        /\ \A i \in 1..Len(ReturnedChannels) : EffectiveActive(ReturnedChannels[i], reqArgs)
        /\ OnlyActivityFilters(reqArgs) =>
              ReturnedChannels = SelectSeq(snapshot, LAMBDA c : EffectiveActive(c, reqArgs))

\* only is_active = false and is_offline = false were supplied, and the node's
\* inactive channel was returned
C29_Witness ==
    /\ ChannelsReturned
    /\ reqArgs = Spread(Prop("is_active", Bool(FALSE)), Prop("is_offline", Bool(FALSE)))
    /\ Len(snapshot) = 1
    /\ ~snapshot[1].is_active
    /\ ReturnedChannels = snapshot

InList(c, channels) == \E i \in 1..Len(channels) : channels[i] = c

\* what a request asks of a channel: is_active decides over is_offline, is_private
\* over is_public, and a blank partner key asks nothing
Wanted(c, args) ==
    /\ EffectiveActive(c, args)
    /\ PrivacyHolds(c, args)
    /\ (Supplied(args, "partner_public_key") /\ ~Blank(args["partner_public_key"]))
          => PartnerHolds(c, args)
\* the channels the node holds now, and whether a listing is awaited
NodeState == IF op = "getChannels" THEN nodeChannels ELSE backendChannels
ListingAwaited ==
    \/ op = "pay" /\ payPc = "listing"
    \/ op = "getChannels" /\ reqPc = "listing"

\* C23: a channel query or an outbound selection that runs while the channel
\* set changes observes one complete channel set: one backend listing is made,
\* its answer is the whole channel set the node held at one moment, it is taken
\* once, and the result is made of that answer alone: every channel returned is
\* in it, every channel in it that the request asks for is returned, and the
\* selection compares its channels only, whatever the node holds by then.
C23_OneListingPerOperation ==
    /\ [](op = "pay" =>
            /\ listCalls <= 1
            /\ listAnswer = "ok" =>
                  /\ listCalls = 1
                  /\ selected = "" => ActiveIn(snapshot) = {}
                  /\ selected # "" => \E i \in BestIn(snapshot) : snapshot[i].id = selected)
    /\ [](ChannelsReturned =>
            /\ backendLog = <<"getChannels">>
            /\ \A i \in 1..Len(ReturnedChannels) : InList(ReturnedChannels[i], snapshot)
            /\ \A i \in 1..Len(snapshot) :
                  InList(snapshot[i], ReturnedChannels) <=> Wanted(snapshot[i], reqArgs))
    /\ [][snapshot' # snapshot => ListingAwaited /\ snapshot' = NodeState]_vars

\* a channel that the request asks for opened after the backend had answered:
\* the query returned the listed channel and not the new one
C23_Witness ==
    /\ ChannelsReturned
    /\ changes > 0
    /\ Len(snapshot) = 1
    /\ Len(nodeChannels) = 2
    /\ Wanted(nodeChannels[2], reqArgs)
    /\ ReturnedChannels = snapshot

AwaitingBackend ==
    \/ op = "pay" /\ payPc \in {"listing", "paying"}
    \/ op \in QueryOps /\ reqPc = "called"
OperationEnded ==
    \/ op = "pay" /\ payPc \in {"returned", "raised"}
    \/ op \in QueryOps /\ reqPc \in {"confirmed", "failed"}

\* C24: no operation blocks indefinitely: every backend call is issued with a
\* timeout, so an operation that awaits the backend eventually terminates,
\* whether or not the backend ever answers.
C24_AwaitEventuallyEnds == AwaitingBackend ~> OperationEnded

(***************************************************************************)
(* The PAY_INVOICE handler, its validate and the provider's constructor     *)
(***************************************************************************)
CredentialKeys == {"LND_TLS_CERT", "LND_MACAROON", "LND_SOCKET"}
\* a credential is missing or empty in the runtime's settings
SomeCredentialMissingOrEmpty ==
    \E k \in CredentialKeys :
        k \notin DOMAIN runtimeSettings \/ runtimeSettings[k] = Str("")
\* the handler was invoked, so the construction of the provider was attempted
ConstructionAttempted == handlerPc \in {"extracting", "paying", "done"}
MissingCredentialsMessage == <<"Missing required LND credentials">>
FailedWithMissingCredentials ==
    \/ caught = <<MissingCredentialsMessage>>
    \/ \E i \in 1..Len(responses) :
          responses[i]["text"] = Str(<<"Error: ">> \o MissingCredentialsMessage)

\* C25: when a credential is missing or empty, the construction of the provider
\* fails with "Missing required LND credentials", no LND client is created and
\* no backend call is made; validate answers true only when the three settings
\* are present and non-empty; and a handler that runs after validate answered
\* true, with the same settings, does not fail with that error.
C25_CredentialsChecked ==
    /\ (ConstructionAttempted /\ SomeCredentialMissingOrEmpty)
         => /\ handlerPc = "done"
            /\ caught = <<MissingCredentialsMessage>>
            /\ handlerResult = Returned(Bool(FALSE))
            /\ lndClients = 0
            /\ listCalls = 0
            /\ payCalls = 0
    /\ isValid = Bool(TRUE) => ~SomeCredentialMissingOrEmpty
    /\ isValid = Bool(TRUE) => ~FailedWithMissingCredentials

\* the handler ran with an empty credential, which validate had refused: the
\* construction failed and the callback was told so
C25_Witness ==
    /\ handlerPc = "done"
    /\ isValid = Bool(FALSE)
    /\ \E k \in CredentialKeys : k \in DOMAIN runtimeSettings /\ runtimeSettings[k] = Str("")
    /\ callback
    /\ FailedWithMissingCredentials
    /\ lndClients = 0

\* the outcomes of a handler invocation that ended
SomethingRaised ==
    \/ lndClients = 0
    \/ content.kind = "error"
    \/ payOutcome.kind = "error"
PaymentSubmitted == payPc = "returned" /\ payAnswer.kind = "ok"
PaidConfirmed ==
    PaymentSubmitted /\ Get(payAnswer.value, "is_confirmed") = Bool(TRUE)
PaidUnconfirmed ==
    PaymentSubmitted /\ Get(payAnswer.value, "is_confirmed") # Bool(TRUE)
\* what the caller sees of the response: its content, and whether the text is an error's
ContentOf(response) == Get(response, "content")
IsErrorText(response) ==
    /\ response["text"][1] = "string"
    /\ Len(response["text"][2]) >= 2
    /\ response["text"][2][1] = "Error: "
Success(b) == Obj(Prop("success", Bool(b)))

\* C21: once the handler ended with a callback supplied: a payment reported with
\* is_confirmed false gives the callback a response with content.success false
\* and the handler returns true; a confirmed one gives content.success true and
\* true; the handler returns false, with an "Error: ..." text without content,
\* exactly when an operation threw.  The caller so sees three different outcomes.
C21_ThreeOutcomes ==
    (handlerPc = "done") =>
        /\ (PaymentSubmitted /\ Get(payAnswer.value, "is_confirmed") = Bool(FALSE))
             => /\ handlerResult = Returned(Bool(TRUE))
                /\ callback => /\ Len(responses) = 1
                               /\ ContentOf(responses[1]) = Success(FALSE)
                               /\ ~IsErrorText(responses[1])
        /\ PaidUnconfirmed
             => /\ handlerResult = Returned(Bool(TRUE))
                /\ callback => ContentOf(responses[1]) = Success(FALSE)
        /\ PaidConfirmed
             => /\ handlerResult = Returned(Bool(TRUE))
                /\ callback => /\ Len(responses) = 1
                               /\ ContentOf(responses[1]) = Success(TRUE)
                               /\ ~IsErrorText(responses[1])
        /\ handlerResult = Returned(Bool(FALSE)) <=> SomethingRaised
        /\ callback =>
             (SomethingRaised <=> /\ Len(responses) = 1
                                  /\ IsErrorText(responses[1])
                                  /\ ContentOf(responses[1]) = Undefined)
        /\ PaidConfirmed \/ PaidUnconfirmed \/ SomethingRaised

\* the backend reported the payment with is_confirmed false and the callback was
\* told of a failure that is not an error
C21_Witness ==
    /\ handlerPc = "done"
    /\ callback
    /\ PaymentSubmitted
    /\ Get(payAnswer.value, "is_confirmed") = Bool(FALSE)
    /\ Len(responses) = 1
    /\ ContentOf(responses[1]) = Success(FALSE)
    /\ handlerResult = Returned(Bool(TRUE))

BackendCallOutstanding == payPc \in {"listing", "paying"}
BackendCallsMade == <<lndClients, listCalls, payCalls>>

\* C30: with a callback supplied, the callback is invoked once per invocation of
\* the handler: not before the handler ends, when no backend call is outstanding,
\* and no backend call is made afterwards; the handler's result is false exactly
\* when the construction of the provider, the extraction of the arguments, the
\* selection of the channel or the pay call raised, and true otherwise.
C30_CallbackOnceAfterBackend ==
    /\ [](callback =>
            /\ Len(responses) = (IF handlerPc = "done" THEN 1 ELSE 0)
            /\ (responses # <<>> => ~BackendCallOutstanding))
    /\ [](handlerPc = "done" =>
            /\ handlerResult = Returned(Bool(FALSE))
                 <=> \/ lndClients = 0
                     \/ content.kind = "error"
                     \/ payOutcome.kind = "error"
            /\ handlerResult = Returned(Bool(TRUE))
                 <=> /\ lndClients = 1
                     /\ content.kind = "ok"
                     /\ payOutcome.kind = "ok")
    /\ [][responses # <<>> => /\ BackendCallsMade' = BackendCallsMade
                              /\ responses' = responses]_vars

\* the pay call was made and rejected: the callback was invoked once, after it,
\* and the handler answered false
C30_Witness ==
    /\ handlerPc = "done"
    /\ callback
    /\ Len(responses) = 1
    /\ listCalls = 1
    /\ payCalls = 1
    /\ payAnswer.kind = "error"
    /\ handlerResult = Returned(Bool(FALSE))

====
